---- MODULE Spec2Model ----
(***************************************************************************)
(* A model of the garray containers of package g/container/garray:         *)
(*   - SortedStringArray (garray_sorted_string.go): the sorted container,  *)
(*   - IntArray (garray_normal_int.go): the unsorted container,            *)
(*   - the dual-mode lock rwmutex.RWMutex that guards both.                *)
(*                                                                         *)
(* Go slices are modelled as TLA+ sequences; Go indices are 0-based, so    *)
(* element i of a slice s is s[i+1] and s[lo:hi] is SubSeq(s, lo+1, hi).   *)
(*                                                                         *)
(* Specifications:                                                         *)
(*   Spec      sequential use of one SortedStringArray                     *)
(*   SpecInt   sequential use of one IntArray                              *)
(*   SpecPush  threads issuing PushRight calls on one shared IntArray      *)
(*   SpecConc  threads issuing mixed calls on one shared IntArray          *)
(*   SpecPop   Remove, the Pop operations and Rands of both containers     *)
(*   SpecDeque pushes and pops at the two ends of one IntArray             *)
(*   SpecBin   binSearch as Add and Search call it                         *)
(*   SpecAdd   threads issuing Add calls on one SortedStringArray          *)
(*   SpecFlag  threads issuing SetUnique and Add calls                     *)
(*   SpecFlagFair     SpecFlag under a fair scheduler                      *)
(*   SpecHanded       the slices Chunk, PopLefts and PopRights return      *)
(*   SpecClone        Clone and Clear of an IntArray                       *)
(*   SpecCloneAdd     a SortedStringArray and its clone under Add          *)
(*   SpecOrder        Add on the contents SetArray and SetUnique leave     *)
(*   SpecSortedAlias  the sorted constructors and the caller's sequence    *)
(* and the further specifications defined with their sections below.       *)
(***************************************************************************)
EXTENDS Integers, Sequences, FiniteSets, TLC

\* ------------------------------------------------------------------------
\* Bounds of the model
\* ------------------------------------------------------------------------

\* Longest sequence a container grows to by Add.
MaxLen == 4

\* Most values passed to one variadic call (Add, Merge).
MaxArgs == 2

\* Longest caller-supplied sequence (NewSortedStringArrayFrom, SetArray).
MaxInit == 3

\* Longest sequence the IntArray holds.
MaxIntLen == 5

\* Most calls one thread issues on the shared IntArray when the threads
\* issue mixed calls.
MaxCalls == 1

\* Most PushRight calls one thread issues when the threads only push.
MaxPush == 2

\* Longest IntArray the threads start from.
MaxConcInit == 2

\* ------------------------------------------------------------------------
\* Elements and the comparator
\* ------------------------------------------------------------------------

\* The strings of the model, in strings.Compare (bytewise) order.
StrOrder == <<"0", "1", "2", "3", "a", "b">>

\* The strings callers pass to the sorted container.
Strs == {"1", "a", "b"}

StrRank(s) == CHOOSE i \in 1..Len(StrOrder) : StrOrder[i] = s

\* The comparator of NewSortedStringArraySize, strings.Compare: -1, 0 or 1.
comparator(v1, v2) ==
    IF StrRank(v1) < StrRank(v2) THEN -1
    ELSE IF StrRank(v1) > StrRank(v2) THEN 1
    ELSE 0

\* s[lo:hi] of Go, for 0 <= lo <= hi <= len(s).
GoSlice(s, lo, hi) == SubSeq(s, lo + 1, hi)

\* All sequences over S of length at most n.
SeqsUpTo(S, n) == UNION {[1..k -> S] : k \in 0..n}

Elems(s) == {s[i] : i \in 1..Len(s)}

Count(s, v) == Cardinality({i \in 1..Len(s) : s[i] = v})

\* Non-decreasing in comparator order.
IsSorted(s) == \A i \in 1..(Len(s) - 1) : comparator(s[i], s[i + 1]) <= 0

\* No two adjacent elements compare equal.
NoAdjacentEqual(s) == \A i \in 1..(Len(s) - 1) : comparator(s[i], s[i + 1]) # 0

\* No value occurs twice.
NoDuplicates(s) == \A i, j \in 1..Len(s) : i # j => s[i] # s[j]

\* ------------------------------------------------------------------------
\* sort.Strings: insertion into a sorted sequence, repeated
\* ------------------------------------------------------------------------

RECURSIVE SortedInsert(_, _)
SortedInsert(s, v) ==
    IF s = <<>> THEN <<v>>
    ELSE IF comparator(v, Head(s)) <= 0 THEN <<v>> \o s
    ELSE <<Head(s)>> \o SortedInsert(Tail(s), v)

RECURSIVE SortStrings(_)
SortStrings(s) ==
    IF s = <<>> THEN <<>>
    ELSE SortedInsert(SortStrings(Tail(s)), Head(s))

\* ------------------------------------------------------------------------
\* SortedStringArray: binary search
\* ------------------------------------------------------------------------

\* The loop of binSearch: <<index, result>>.
RECURSIVE binLoop(_, _, _, _, _, _)
binLoop(arr, value, min, max, mid, cmp) ==
    IF min <= max
    THEN LET m == (min + max) \div 2
             c == comparator(value, arr[m + 1])
         IN  IF c < 0 THEN binLoop(arr, value, min, m - 1, m, c)
             ELSE IF c > 0 THEN binLoop(arr, value, m + 1, max, m, c)
             ELSE <<m, c>>
    ELSE <<mid, cmp>>

\* The loop of binSearch with its condition min <= max written min < max.
RECURSIVE binLoopStrict(_, _, _, _, _, _)
binLoopStrict(arr, value, min, max, mid, cmp) ==
    IF min < max
    THEN LET m == (min + max) \div 2
             c == comparator(value, arr[m + 1])
         IN  IF c < 0 THEN binLoopStrict(arr, value, min, m - 1, m, c)
             ELSE IF c > 0 THEN binLoopStrict(arr, value, m + 1, max, m, c)
             ELSE <<m, c>>
    ELSE <<mid, cmp>>

binSearchStrict(arr, value) ==
    IF Len(arr) = 0 THEN <<-1, -2>>
    ELSE binLoopStrict(arr, value, 0, Len(arr) - 1, 0, -2)

\* binSearch: the last compared index and the comparison's result, or the
\* sentinel <<-1, -2>> on an empty array.
binSearch(arr, value) ==
    IF Len(arr) = 0 THEN <<-1, -2>>
    ELSE binLoop(arr, value, 0, Len(arr) - 1, 0, -2)

\* Search: the index of an exact match, or -1.
SearchResult(arr, value) ==
    LET r == binSearch(arr, value)
    IN  IF r[2] = 0 THEN r[1] ELSE -1

\* Contains: Search(value) != -1.
ContainsResult(arr, value) == SearchResult(arr, value) # -1

\* ------------------------------------------------------------------------
\* SortedStringArray: Add
\* ------------------------------------------------------------------------

InsertIndexNoStep(index, cmp) == index

\* Where Add splices the value: after the located index when it compared
\* greater, before it otherwise.
InsertIndex(index, cmp) == IF cmp > 0 THEN index + 1 ELSE index

SkipValueNever(uniq, cmp) == FALSE

\* Whether Add skips the value: uniqueness is on and the match is exact.
SkipValue(uniq, cmp) == uniq /\ cmp = 0

\* One round of Add's loop that puts the value at the end.
AddOneAppending(arr, uniq, value) == Append(arr, value)

\* One round of Add's loop.
AddOne(arr, uniq, value) ==
    LET r     == binSearch(arr, value)
        index == r[1]
        cmp   == r[2]
    IN  IF SkipValue(uniq, cmp) THEN arr
        ELSE IF index < 0 THEN Append(arr, value)
        ELSE LET at   == InsertIndex(index, cmp)
                 rear == GoSlice(arr, at, Len(arr))
             IN  (GoSlice(arr, 0, at) \o <<value>>) \o rear

\* The array after each round of Add's loop, in order.
RECURSIVE AddSteps(_, _, _)
AddSteps(arr, uniq, values) ==
    IF values = <<>> THEN <<>>
    ELSE LET next == AddOne(arr, uniq, Head(values))
         IN  <<next>> \o AddSteps(next, uniq, Tail(values))

\* The array when Add returns.
AddAll(arr, uniq, values) ==
    IF values = <<>> THEN arr
    ELSE LET steps == AddSteps(arr, uniq, values) IN steps[Len(steps)]

\* ------------------------------------------------------------------------
\* SortedStringArray: Unique, Remove and the Pop operations
\* ------------------------------------------------------------------------

\* The loop of Unique from position i: the array it leaves, and whether it
\* faults (index out of range).
RECURSIVE UniqueLoop(_, _)
UniqueLoop(arr, i) ==
    IF i = Len(arr) - 1 THEN [array |-> arr, fault |-> FALSE]
    ELSE IF i + 1 > Len(arr) - 1 THEN [array |-> arr, fault |-> TRUE]
    ELSE IF comparator(arr[i + 1], arr[i + 2]) = 0
         THEN UniqueLoop(GoSlice(arr, 0, i + 1) \o GoSlice(arr, i + 2, Len(arr)), i)
         ELSE UniqueLoop(arr, i + 1)

UniqueResult(arr) == UniqueLoop(arr, 0)

\* Remove(index) with an interior element replaced by the last one instead of
\* the gap being closed.
RemoveResultSwapping(arr, index) ==
    LET n == Len(arr)
    IN  IF index < 0 \/ index >= n THEN [array |-> arr, val |-> "", fault |-> TRUE]
        ELSE [array |-> GoSlice([arr EXCEPT ![index + 1] = arr[n]], 0, n - 1),
              val |-> arr[index + 1], fault |-> FALSE]

\* Remove(index): the array it leaves, the value returned, and whether it
\* faults (index out of range).
RemoveResult(arr, index) ==
    LET n == Len(arr)
        faulty == [array |-> arr, val |-> "", fault |-> TRUE]
    IN  IF index = 0
        THEN IF n = 0 THEN faulty
             ELSE [array |-> GoSlice(arr, 1, n), val |-> arr[1], fault |-> FALSE]
        ELSE IF index = n - 1
        THEN IF index < 0 THEN faulty
             ELSE [array |-> GoSlice(arr, 0, index), val |-> arr[index + 1], fault |-> FALSE]
        ELSE IF index < 0 \/ index >= n THEN faulty
        ELSE [array |-> GoSlice(arr, 0, index) \o GoSlice(arr, index + 1, n),
              val |-> arr[index + 1], fault |-> FALSE]

PopLeftResult(arr) ==
    IF Len(arr) = 0 THEN [array |-> arr, val |-> "", fault |-> TRUE]
    ELSE [array |-> GoSlice(arr, 1, Len(arr)), val |-> arr[1], fault |-> FALSE]

PopRightResult(arr) ==
    LET index == Len(arr) - 1
    IN  IF index < 0 THEN [array |-> arr, val |-> "", fault |-> TRUE]
        ELSE [array |-> GoSlice(arr, 0, index), val |-> arr[index + 1], fault |-> FALSE]

\* ------------------------------------------------------------------------
\* State
\* ------------------------------------------------------------------------

VARIABLES
    safe,       \* the lock's mode: TRUE for a real reader/writer lock
    mu,         \* sequential use: "free", or "W" while the exclusive lock is held
    array,      \* SortedStringArray.array
    unique,     \* SortedStringArray.unique
    last,       \* the last call on the SortedStringArray: name, arguments,
                \* state before, results
    ia,         \* IntArray.array
    ilast,      \* the last sequential call on the IntArray
    writer,     \* the thread holding the exclusive lock, or 0
    readers,    \* for each thread, the shared locks it holds
    pc,         \* each thread's position in the call it runs
    loc,        \* each thread's arguments and local variables
    calls,      \* the number of calls each thread has issued
    pushed,     \* for each value, the number of PushRight calls issued with it
    store,      \* the backing array a.array points into, all of its capacity
    hdr,        \* a.array as a slice of store: offset and length
    ext         \* the slice the caller holds: the constructor's argument, or
                \* the slice a call returned; or the clone Clone() returned

sortedVars == <<array, unique, last>>
intVars == <<ia, ilast>>
concVars == <<writer, readers, pc, loc, calls, pushed>>
memVars == <<store, hdr, ext>>
vars == <<safe, mu, sortedVars, intVars, concVars, memVars>>

\* The threads that share a container.
NThreads == 2

Threads == 1..NThreads

\* The ints callers pass to the IntArray.
IntVals == {1, 2, 3}

NoIntCall ==
    [op |-> "new", pre |-> <<>>, args |-> <<>>, idx |-> -1, val |-> 0,
     fault |-> FALSE]

\* A thread's arguments and locals outside any call.
NoLoc ==
    [val |-> 0, idx |-> -1, tmp |-> <<>>, ret |-> -1, inCallback |-> FALSE,
     fault |-> FALSE]

\* No IntArray in use.
NoIntArray == ia = <<>> /\ ilast = NoIntCall

\* No thread in use.
NoThreads ==
    /\ writer = 0
    /\ readers = [t \in Threads |-> 0]
    /\ pc = [t \in Threads |-> "idle"]
    /\ loc = [t \in Threads |-> NoLoc]
    /\ calls = [t \in Threads |-> 0]
    /\ pushed = [v \in IntVals |-> 0]

\* No slice held by a caller.
NoExt == [held |-> FALSE]

\* The storage of the IntArray is not modelled cell by cell.
NoStorage == store = <<>> /\ hdr = [off |-> 0, len |-> 0] /\ ext = NoExt

NoCall ==
    [op |-> "new", pre |-> <<>>, preUnique |-> FALSE, args |-> <<>>,
     idx |-> -1, val |-> "", ok |-> FALSE, fault |-> FALSE, steps |-> <<>>]

\* A call that takes the lock can proceed: the lock is a no-op, or it is free.
CanLock == ~safe \/ mu = "free"

\* NewSortedStringArray (empty) or NewSortedStringArrayFrom(s): s sorted,
\* uniqueness off, the lock's mode as the caller chose.
Init ==
    /\ safe \in BOOLEAN
    /\ mu = "free"
    /\ \E s \in SeqsUpTo(Strs, MaxInit) : array = SortStrings(s)
    /\ unique = FALSE
    /\ last = NoCall
    /\ NoIntArray
    /\ NoThreads
    /\ NoStorage

Call(name) == [NoCall EXCEPT !.op = name, !.pre = array, !.preUnique = unique]

\* Add(values...)
Add ==
    \E values \in SeqsUpTo(Strs, MaxArgs) :
        /\ Len(array) + Len(values) <= MaxLen
        /\ values = <<>> \/ CanLock
        /\ array' = AddAll(array, unique, values)
        /\ last' = [Call("Add") EXCEPT !.args = values,
                                       !.steps = AddSteps(array, unique, values)]
        /\ UNCHANGED <<safe, mu, unique, intVars, concVars, memVars>>

\* SetArray(array)
SetArray ==
    \E s \in SeqsUpTo(Strs, MaxInit) :
        /\ CanLock
        /\ array' = SortStrings(s)
        /\ last' = [Call("SetArray") EXCEPT !.args = s]
        /\ UNCHANGED <<safe, mu, unique, intVars, concVars, memVars>>

\* Sort()
Sort ==
    /\ CanLock
    /\ array' = SortStrings(array)
    /\ last' = Call("Sort")
    /\ UNCHANGED <<safe, mu, unique, intVars, concVars, memVars>>

\* Search(value)
Search ==
    \E value \in Strs :
        /\ array = <<>> \/ CanLock
        /\ last' = [Call("Search") EXCEPT !.args = <<value>>,
                                          !.idx = SearchResult(array, value)]
        /\ UNCHANGED <<safe, mu, array, unique, intVars, concVars, memVars>>

\* Contains(value)
Contains ==
    \E value \in Strs :
        /\ array = <<>> \/ CanLock
        /\ last' = [Call("Contains") EXCEPT !.args = <<value>>,
                                            !.ok = ContainsResult(array, value)]
        /\ UNCHANGED <<safe, mu, array, unique, intVars, concVars, memVars>>

\* Unique(): the lock is taken and released without defer, so a fault
\* leaves it held.
Unique ==
    LET r == UniqueResult(array)
    IN  /\ CanLock
        /\ array' = r.array
        /\ mu' = IF safe /\ r.fault THEN "W" ELSE mu
        /\ last' = [Call("Unique") EXCEPT !.fault = r.fault]
        /\ UNCHANGED <<safe, unique, intVars, concVars, memVars>>

\* SetUnique(unique): the flag is written first, then Unique() runs when the
\* flag went from off to on.
SetUnique ==
    \E flag \in BOOLEAN :
        LET dedup == flag /\ unique # flag
            r     == IF dedup THEN UniqueResult(array)
                     ELSE [array |-> array, fault |-> FALSE]
        IN  /\ dedup => CanLock
            /\ unique' = flag
            /\ array' = r.array
            /\ mu' = IF safe /\ r.fault THEN "W" ELSE mu
            /\ last' = [Call("SetUnique") EXCEPT !.ok = flag, !.fault = r.fault]
            /\ UNCHANGED <<safe, intVars, concVars, memVars>>

\* Remove(index): the lock is released by defer, also on a fault.
Remove ==
    \E index \in -1..MaxLen :
        LET r == RemoveResult(array, index)
        IN  /\ CanLock
            /\ array' = r.array
            /\ last' = [Call("Remove") EXCEPT !.idx = index, !.val = r.val,
                                              !.fault = r.fault]
            /\ UNCHANGED <<safe, mu, unique, intVars, concVars, memVars>>

\* PopLeft()
PopLeft ==
    LET r == PopLeftResult(array)
    IN  /\ CanLock
        /\ array' = r.array
        /\ last' = [Call("PopLeft") EXCEPT !.val = r.val, !.fault = r.fault]
        /\ UNCHANGED <<safe, mu, unique, intVars, concVars, memVars>>

\* PopRight()
PopRight ==
    LET r == PopRightResult(array)
    IN  /\ CanLock
        /\ array' = r.array
        /\ last' = [Call("PopRight") EXCEPT !.val = r.val, !.fault = r.fault]
        /\ UNCHANGED <<safe, mu, unique, intVars, concVars, memVars>>

\* PopRand() on a non-empty array: Remove(grand.Intn(len(a.array))).
PopRand ==
    /\ array # <<>>
    /\ \E index \in 0..(Len(array) - 1) :
        LET r == RemoveResult(array, index)
        IN  /\ CanLock
            /\ array' = r.array
            /\ last' = [Call("PopRand") EXCEPT !.idx = index, !.val = r.val,
                                               !.fault = r.fault]
            /\ UNCHANGED <<safe, mu, unique, intVars, concVars, memVars>>

\* Clear()
Clear ==
    /\ CanLock
    /\ array' = <<>>
    /\ last' = Call("Clear")
    /\ UNCHANGED <<safe, mu, unique, intVars, concVars, memVars>>

\* Merge(array) for a source holding strings: Add(gconv.Strings(source)...).
Merge ==
    \E source \in SeqsUpTo(Strs, MaxArgs) :
        /\ Len(array) + Len(source) <= MaxLen
        /\ source = <<>> \/ CanLock
        /\ array' = AddAll(array, unique, source)
        /\ last' = [Call("Merge") EXCEPT !.args = source,
                                         !.steps = AddSteps(array, unique, source)]
        /\ UNCHANGED <<safe, mu, unique, intVars, concVars, memVars>>

Next ==
    \/ Add
    \/ SetArray
    \/ Sort
    \/ Search
    \/ Contains
    \/ Unique
    \/ SetUnique
    \/ Remove
    \/ PopLeft
    \/ PopRight
    \/ PopRand
    \/ Clear
    \/ Merge

Spec == Init /\ [][Next]_vars

\* ------------------------------------------------------------------------
\* Claims on the sequential SortedStringArray (Spec)
\* ------------------------------------------------------------------------

\* C1: after every Add call the array is in non-decreasing comparator order,
\* and so is the array after every single value the call inserted.
C1_AddKeepsSorted ==
    last.op = "Add" =>
        /\ IsSorted(array)
        /\ \A k \in 1..Len(last.steps) : IsSorted(last.steps[k])

\* An Add of two values into a non-empty array, one spliced before and one
\* after the existing element.
C1_Witness ==
    /\ last.op = "Add"
    /\ last.pre = <<"a">>
    /\ last.args = <<"b", "1">>
    /\ last.steps = << <<"a", "b">>, <<"1", "a", "b">> >>
    /\ array = <<"1", "a", "b">>

\* C2: Search(v) returns an index holding v if and only if v is present, and
\* -1 otherwise (also on the empty array); Contains(v) is true exactly when v
\* is present, that is exactly when Search(v) is not -1.
C2_SearchFindsExactlyPresent ==
    /\ last.op = "Search" =>
          LET v == last.args[1]
          IN  /\ (last.idx # -1) <=> (v \in Elems(array))
              /\ last.idx # -1 =>
                    /\ 0 <= last.idx /\ last.idx < Len(array)
                    /\ array[last.idx + 1] = v
              /\ array = <<>> => last.idx = -1
    /\ last.op = "Contains" =>
          LET v == last.args[1]
          IN  /\ last.ok <=> (v \in Elems(array))
              /\ last.ok <=> (SearchResult(array, v) # -1)

\* A Search that finds its value at the last position of a longer array.
C2_Witness ==
    /\ last.op = "Search"
    /\ Len(array) >= 3
    /\ last.idx = Len(array) - 1
    /\ array[Len(array)] = last.args[1]

\* C3: with uniqueness on and no duplicates in the array, Add leaves no two
\* adjacent elements equal after any inserted value, leaves the array
\* unchanged when every value was already present, and holds each added
\* value exactly once afterwards.
C3_UniqueAddIdempotent ==
    (last.op = "Add" /\ last.preUnique /\ NoDuplicates(last.pre)) =>
        /\ NoAdjacentEqual(array)
        /\ \A k \in 1..Len(last.steps) : NoAdjacentEqual(last.steps[k])
        /\ Elems(last.args) \subseteq Elems(last.pre) => array = last.pre
        /\ \A v \in Elems(last.args) : Count(array, v) = 1

\* An Add, uniqueness on, of the same new value twice in one call.
C3_Witness ==
    /\ last.op = "Add"
    /\ last.preUnique
    /\ last.pre = <<"1">>
    /\ last.args = <<"a", "a">>
    /\ array = <<"1", "a">>

\* C4: between calls the array is sorted and, if the uniqueness flag is on,
\* no two adjacent elements compare equal.
C4_SortedAndUniqueAtRest ==
    /\ IsSorted(array)
    /\ unique => NoAdjacentEqual(array)

\* C5: SetUnique(true) on a container whose flag was off returns normally and
\* leaves every value that was present exactly once, in sorted order.
C5_SetUniqueDedups ==
    (last.op = "SetUnique" /\ last.ok /\ ~last.preUnique) =>
        /\ ~last.fault
        /\ IsSorted(array)
        /\ Elems(array) = Elems(last.pre)
        /\ NoDuplicates(array)

\* ------------------------------------------------------------------------
\* IntArray: sequential use (SpecInt)
\* ------------------------------------------------------------------------

\* The inner loop of IntArray.Unique: j runs on to j+1 also after element j
\* was removed.
RECURSIVE IntUniqueInner(_, _, _)
IntUniqueInner(arr, i, j) ==
    IF j < Len(arr)
    THEN IF arr[i + 1] = arr[j + 1]
         THEN IntUniqueInner(GoSlice(arr, 0, j) \o GoSlice(arr, j + 1, Len(arr)), i, j + 1)
         ELSE IntUniqueInner(arr, i, j + 1)
    ELSE arr

\* The outer loop of IntArray.Unique.
RECURSIVE IntUniqueOuter(_, _)
IntUniqueOuter(arr, i) ==
    IF i < Len(arr) - 1
    THEN IntUniqueOuter(IntUniqueInner(arr, i, i + 1), i + 1)
    ELSE arr

IntUniqueResult(arr) == IntUniqueOuter(arr, 0)

\* IntArray.Search: the first index holding value, or -1.
IntSearchResult(arr, value) ==
    IF Len(arr) = 0 THEN -1
    ELSE IF value \in Elems(arr)
         THEN (CHOOSE i \in 1..Len(arr) :
                   arr[i] = value /\ \A k \in 1..(i - 1) : arr[k] # value) - 1
         ELSE -1

\* IntArray.Remove(index): the array it leaves, the value returned, and
\* whether it faults (index out of range).
IntRemoveResult(arr, index) ==
    LET n == Len(arr)
        faulty == [array |-> arr, val |-> 0, fault |-> TRUE]
    IN  IF index = 0
        THEN IF n = 0 THEN faulty
             ELSE [array |-> GoSlice(arr, 1, n), val |-> arr[1], fault |-> FALSE]
        ELSE IF index = n - 1
        THEN IF index < 0 THEN faulty
             ELSE [array |-> GoSlice(arr, 0, index), val |-> arr[index + 1], fault |-> FALSE]
        ELSE IF index < 0 \/ index >= n THEN faulty
        ELSE [array |-> GoSlice(arr, 0, index) \o GoSlice(arr, index + 1, n),
              val |-> arr[index + 1], fault |-> FALSE]

\* NewIntArray (empty) or NewIntArrayFrom(s), the lock's mode as the caller
\* chose.
InitInt ==
    /\ safe \in BOOLEAN
    /\ mu = "free"
    /\ ia \in SeqsUpTo(IntVals, MaxIntLen)
    /\ ilast = NoIntCall
    /\ array = <<>>
    /\ unique = FALSE
    /\ last = NoCall
    /\ NoThreads
    /\ NoStorage

IntCall(name) == [NoIntCall EXCEPT !.op = name, !.pre = ia]

IntFrame == UNCHANGED <<safe, mu, sortedVars, concVars, memVars>>

\* Get(index): the lock is released by defer, also on a fault.
IntGet ==
    \E index \in -1..MaxIntLen :
        /\ CanLock
        /\ ilast' = IF 0 <= index /\ index < Len(ia)
                    THEN [IntCall("Get") EXCEPT !.idx = index, !.val = ia[index + 1]]
                    ELSE [IntCall("Get") EXCEPT !.idx = index, !.fault = TRUE]
        /\ UNCHANGED ia
        /\ IntFrame

\* Set(index, value)
IntSet ==
    \E index \in -1..MaxIntLen, value \in IntVals :
        /\ CanLock
        /\ IF 0 <= index /\ index < Len(ia)
           THEN /\ ia' = [ia EXCEPT ![index + 1] = value]
                /\ ilast' = [IntCall("Set") EXCEPT !.idx = index, !.val = value]
           ELSE /\ ia' = ia
                /\ ilast' = [IntCall("Set") EXCEPT !.idx = index, !.val = value,
                                                   !.fault = TRUE]
        /\ IntFrame

\* Remove(index)
IntRemove ==
    \E index \in -1..MaxIntLen :
        LET r == IntRemoveResult(ia, index)
        IN  /\ CanLock
            /\ ia' = r.array
            /\ ilast' = [IntCall("Remove") EXCEPT !.idx = index, !.val = r.val,
                                                  !.fault = r.fault]
            /\ IntFrame

\* PushLeft(value...)
IntPushLeft ==
    \E values \in SeqsUpTo(IntVals, MaxArgs) :
        /\ Len(ia) + Len(values) <= MaxIntLen
        /\ CanLock
        /\ ia' = values \o ia
        /\ ilast' = [IntCall("PushLeft") EXCEPT !.args = values]
        /\ IntFrame

\* PushRight(value...) with the values put in front of the array.
IntPushRightInFront ==
    \E values \in SeqsUpTo(IntVals, MaxArgs) :
        /\ Len(ia) + Len(values) <= MaxIntLen
        /\ CanLock
        /\ ia' = values \o ia
        /\ ilast' = [IntCall("PushRight") EXCEPT !.args = values]
        /\ IntFrame

\* PushRight(value...)
IntPushRight ==
    \E values \in SeqsUpTo(IntVals, MaxArgs) :
        /\ Len(ia) + Len(values) <= MaxIntLen
        /\ CanLock
        /\ ia' = ia \o values
        /\ ilast' = [IntCall("PushRight") EXCEPT !.args = values]
        /\ IntFrame

\* Append(value...): the same statements as PushRight.
IntAppend ==
    \E values \in SeqsUpTo(IntVals, MaxArgs) :
        /\ Len(ia) + Len(values) <= MaxIntLen
        /\ CanLock
        /\ ia' = ia \o values
        /\ ilast' = [IntCall("Append") EXCEPT !.args = values]
        /\ IntFrame

\* PopLeft()
IntPopLeft ==
    /\ CanLock
    /\ IF Len(ia) = 0
       THEN /\ ia' = ia
            /\ ilast' = [IntCall("PopLeft") EXCEPT !.fault = TRUE]
       ELSE /\ ia' = GoSlice(ia, 1, Len(ia))
            /\ ilast' = [IntCall("PopLeft") EXCEPT !.val = ia[1]]
    /\ IntFrame

\* PopRight()
IntPopRight ==
    /\ CanLock
    /\ IF Len(ia) = 0
       THEN /\ ia' = ia
            /\ ilast' = [IntCall("PopRight") EXCEPT !.fault = TRUE]
       ELSE /\ ia' = GoSlice(ia, 0, Len(ia) - 1)
            /\ ilast' = [IntCall("PopRight") EXCEPT !.val = ia[Len(ia)]]
    /\ IntFrame

\* Search(value)
IntSearch ==
    \E value \in IntVals :
        /\ ia = <<>> \/ CanLock
        /\ ilast' = [IntCall("Search") EXCEPT !.args = <<value>>,
                                              !.idx = IntSearchResult(ia, value)]
        /\ UNCHANGED ia
        /\ IntFrame

\* Unique()
IntUnique ==
    /\ CanLock
    /\ ia' = IntUniqueResult(ia)
    /\ ilast' = IntCall("Unique")
    /\ IntFrame

\* Clear()
IntClear ==
    /\ CanLock
    /\ ia' = <<>>
    /\ ilast' = IntCall("Clear")
    /\ IntFrame

NextInt ==
    \/ IntGet
    \/ IntSet
    \/ IntRemove
    \/ IntPushLeft
    \/ IntPushRight
    \/ IntPopLeft
    \/ IntPopRight
    \/ IntSearch
    \/ IntUnique
    \/ IntClear

SpecInt == InitInt /\ [][NextInt]_vars

\* ------------------------------------------------------------------------
\* Claims on the sequential IntArray (SpecInt)
\* ------------------------------------------------------------------------

\* The first occurrence of each value of s, in the order of s.
RECURSIVE FirstOccurrences(_)
FirstOccurrences(s) ==
    IF s = <<>> THEN <<>>
    ELSE LET front == SubSeq(s, 1, Len(s) - 1)
             v == s[Len(s)]
         IN  IF v \in Elems(front) THEN FirstOccurrences(front)
             ELSE Append(FirstOccurrences(front), v)

\* C6: Unique() on the unsorted container leaves each value of the original
\* sequence exactly once, in the order of the first occurrences.
C6_UniqueKeepsFirstOccurrences ==
    ilast.op = "Unique" =>
        /\ NoDuplicates(ia)
        /\ ia = FirstOccurrences(ilast.pre)

\* ------------------------------------------------------------------------
\* The dual-mode lock (rwmutex.RWMutex): a reader/writer lock in safe mode,
\* no-ops in unsafe mode
\* ------------------------------------------------------------------------

NoReaders == \A u \in Threads : readers[u] = 0

\* Lock(): waits until there is no holder.
Lock(t) ==
    /\ safe => (writer = 0 /\ NoReaders)
    /\ writer' = IF safe THEN t ELSE writer
    /\ UNCHANGED readers

\* Unlock()
Unlock(t) ==
    /\ writer' = IF safe THEN 0 ELSE writer
    /\ UNCHANGED readers

\* RLock(): waits until there is no exclusive holder.
RLock(t) ==
    /\ safe => writer = 0
    /\ readers' = IF safe THEN [readers EXCEPT ![t] = @ + 1] ELSE readers
    /\ UNCHANGED writer

\* RUnlock()
RUnlock(t) ==
    /\ readers' = IF safe THEN [readers EXCEPT ![t] = @ - 1] ELSE readers
    /\ UNCHANGED writer

\* ------------------------------------------------------------------------
\* IntArray: threads sharing one array (SpecPush, SpecConc, SpecLockFunc)
\* ------------------------------------------------------------------------

\* The values threads push and set.
PushVals == {1, 2}

ThreadFrame == UNCHANGED <<safe, mu, sortedVars, ilast, memVars>>

Goto(t, label) == pc' = [pc EXCEPT ![t] = label]

\* Thread t starts a call from outside any call, unless it has issued max
\* calls.
BeginUpTo(t, label, args, max) ==
    /\ pc[t] = "idle"
    /\ calls[t] < max
    /\ calls' = [calls EXCEPT ![t] = @ + 1]
    /\ pc' = [pc EXCEPT ![t] = label]
    /\ loc' = [loc EXCEPT ![t] = args]

Begin(t, label, args) == BeginUpTo(t, label, args, MaxCalls)

\* The call of thread t returns: to the callback's LockFunc when it was made
\* from a callback, to the caller otherwise; a fault ends the thread.
Return(t) ==
    /\ pc' = [pc EXCEPT ![t] = IF loc[t].fault THEN "panicked"
                                ELSE IF loc[t].inCallback THEN "LockFunc_Unlock"
                                ELSE "idle"]
    /\ loc' = [loc EXCEPT ![t] = NoLoc]

\* --- PushRight(value): Lock; a.array = append(a.array, value); Unlock

CallPushRightUpTo(t, max) ==
    \E v \in PushVals :
        /\ BeginUpTo(t, "PushRight_Lock", [NoLoc EXCEPT !.val = v], max)
        /\ pushed' = [pushed EXCEPT ![v] = @ + 1]
        /\ UNCHANGED <<ia, writer, readers>>
        /\ ThreadFrame

CallPushRight(t) == CallPushRightUpTo(t, MaxCalls)

\* One of the MaxPush PushRight calls of a thread that only pushes.
CallPush(t) == CallPushRightUpTo(t, MaxPush)

PushRightLockNone(t) ==
    /\ pc[t] = "PushRight_Lock"
    /\ Goto(t, "PushRight_read")
    /\ UNCHANGED <<ia, loc, calls, pushed, writer, readers>>
    /\ ThreadFrame

PushRightLock(t) ==
    /\ pc[t] = "PushRight_Lock"
    /\ Lock(t)
    /\ Goto(t, "PushRight_read")
    /\ UNCHANGED <<ia, loc, calls, pushed>>
    /\ ThreadFrame

\* append reads the slice a.array ...
PushRightRead(t) ==
    /\ pc[t] = "PushRight_read"
    /\ loc' = [loc EXCEPT ![t].tmp = ia]
    /\ Goto(t, "PushRight_write")
    /\ UNCHANGED <<ia, calls, pushed, writer, readers>>
    /\ ThreadFrame

\* ... and the extended slice is stored to a.array.
PushRightWrite(t) ==
    /\ pc[t] = "PushRight_write"
    /\ ia' = Append(loc[t].tmp, loc[t].val)
    /\ loc' = [loc EXCEPT ![t].tmp = <<>>]
    /\ Goto(t, "PushRight_Unlock")
    /\ UNCHANGED <<calls, pushed, writer, readers>>
    /\ ThreadFrame

PushRightUnlock(t) ==
    /\ pc[t] = "PushRight_Unlock"
    /\ Unlock(t)
    /\ Return(t)
    /\ UNCHANGED <<ia, calls, pushed>>
    /\ ThreadFrame

\* --- Len(): RLock; length := len(a.array); RUnlock

CallLen(t) ==
    /\ pc[t] = "idle"
    /\ Goto(t, "Len_RLock")
    /\ UNCHANGED <<ia, loc, calls, pushed, writer, readers>>
    /\ ThreadFrame

LenRLock(t) ==
    /\ pc[t] = "Len_RLock"
    /\ RLock(t)
    /\ Goto(t, "Len_read")
    /\ UNCHANGED <<ia, loc, calls, pushed>>
    /\ ThreadFrame

LenRead(t) ==
    /\ pc[t] = "Len_read"
    /\ loc' = [loc EXCEPT ![t].ret = Len(ia)]
    /\ Goto(t, "Len_RUnlock")
    /\ UNCHANGED <<ia, calls, pushed, writer, readers>>
    /\ ThreadFrame

LenRUnlock(t) ==
    /\ pc[t] = "Len_RUnlock"
    /\ RUnlock(t)
    /\ Return(t)
    /\ UNCHANGED <<ia, calls, pushed>>
    /\ ThreadFrame

\* A thread in a call takes its next step.
PushStep(t) ==
    \/ PushRightLock(t)
    \/ PushRightRead(t)
    \/ PushRightWrite(t)
    \/ PushRightUnlock(t)
    \/ LenRLock(t)
    \/ LenRead(t)
    \/ LenRUnlock(t)

\* NewIntArray(): an empty array in safe mode, shared by the threads.
InitPush ==
    /\ safe = TRUE
    /\ mu = "free"
    /\ ia = <<>>
    /\ ilast = NoIntCall
    /\ array = <<>>
    /\ unique = FALSE
    /\ last = NoCall
    /\ NoThreads
    /\ NoStorage

NextPush ==
    \E t \in Threads :
        \/ CallPush(t)
        \/ CallLen(t)
        \/ PushStep(t)

SpecPush == InitPush /\ [][NextPush]_vars

\* ------------------------------------------------------------------------
\* Claims on concurrent PushRight calls (SpecPush)
\* ------------------------------------------------------------------------

\* The PushRight calls with value v that have not stored their value yet.
InFlight(v) ==
    Cardinality({t \in Threads :
        /\ pc[t] \in {"PushRight_Lock", "PushRight_read", "PushRight_write"}
        /\ loc[t].val = v})

\* Every thread has issued all its calls and all have returned.
AllPushed == \A t \in Threads : pc[t] = "idle" /\ calls[t] = MaxPush

\* C7: in safe mode no PushRight is lost: at any time the array holds each
\* value as often as PushRight calls have stored it, so when NThreads threads
\* have each completed MaxPush PushRight calls the length is
\* NThreads * MaxPush, and that is what Len() returns.
C7_NoLostPush ==
    safe =>
        /\ \A v \in IntVals : Count(ia, v) = pushed[v] - InFlight(v)
        /\ AllPushed => Len(ia) = NThreads * MaxPush
        /\ \A t \in Threads :
              (/\ pc[t] = "Len_RUnlock"
               /\ (\A u \in Threads : calls[u] = MaxPush)
               /\ (\A u \in Threads \ {t} : pc[u] = "idle"))
                  => loc[t].ret = NThreads * MaxPush

\* In safe mode all threads have pushed, both values are in the array, and a
\* Len() call is about to return.
C7_Witness ==
    /\ safe
    /\ (\A u \in Threads : calls[u] = MaxPush)
    /\ \E t \in Threads :
          /\ pc[t] = "Len_RUnlock"
          /\ loc[t].ret = NThreads * MaxPush
          /\ \A u \in Threads \ {t} : pc[u] = "idle"
    /\ Elems(ia) = PushVals

\* ------------------------------------------------------------------------
\* IntArray: threads issuing mixed calls (SpecConc)
\* ------------------------------------------------------------------------

\* The results grand.Intn(n) can have; -1 stands for a fault, which is how
\* n = 0 may end.
IntnResults(n) == IF n > 0 THEN 0..(n - 1) ELSE {0, -1}

\* --- Get(index): RLock; defer RUnlock; value := a.array[index]

CallGet(t) ==
    \E index \in 0..MaxConcInit :
        /\ Begin(t, "Get_RLock", [NoLoc EXCEPT !.idx = index])
        /\ UNCHANGED <<ia, pushed, writer, readers>>
        /\ ThreadFrame

GetRLock(t) ==
    /\ pc[t] = "Get_RLock"
    /\ RLock(t)
    /\ Goto(t, "Get_read")
    /\ UNCHANGED <<ia, loc, calls, pushed>>
    /\ ThreadFrame

GetRead(t) ==
    /\ pc[t] = "Get_read"
    /\ loc' = IF loc[t].idx < Len(ia)
              THEN [loc EXCEPT ![t].ret = ia[loc[t].idx + 1]]
              ELSE [loc EXCEPT ![t].fault = TRUE]
    /\ Goto(t, "Get_RUnlock")
    /\ UNCHANGED <<ia, calls, pushed, writer, readers>>
    /\ ThreadFrame

GetRUnlock(t) ==
    /\ pc[t] = "Get_RUnlock"
    /\ RUnlock(t)
    /\ Return(t)
    /\ UNCHANGED <<ia, calls, pushed>>
    /\ ThreadFrame

\* --- Set(index, value): Lock; defer Unlock; a.array[index] = value

CallSet(t) ==
    \E index \in 0..MaxConcInit, v \in PushVals :
        /\ Begin(t, "Set_Lock", [NoLoc EXCEPT !.idx = index, !.val = v])
        /\ UNCHANGED <<ia, pushed, writer, readers>>
        /\ ThreadFrame

SetLockShared(t) ==
    /\ pc[t] = "Set_Lock"
    /\ RLock(t)
    /\ Goto(t, "Set_write")
    /\ UNCHANGED <<ia, loc, calls, pushed>>
    /\ ThreadFrame

SetLock(t) ==
    /\ pc[t] = "Set_Lock"
    /\ Lock(t)
    /\ Goto(t, "Set_write")
    /\ UNCHANGED <<ia, loc, calls, pushed>>
    /\ ThreadFrame

SetWrite(t) ==
    /\ pc[t] = "Set_write"
    /\ IF loc[t].idx < Len(ia)
       THEN /\ ia' = [ia EXCEPT ![loc[t].idx + 1] = loc[t].val]
            /\ UNCHANGED loc
       ELSE /\ loc' = [loc EXCEPT ![t].fault = TRUE]
            /\ UNCHANGED ia
    /\ Goto(t, "Set_Unlock")
    /\ UNCHANGED <<calls, pushed, writer, readers>>
    /\ ThreadFrame

SetUnlock(t) ==
    /\ pc[t] = "Set_Unlock"
    /\ Unlock(t)
    /\ Return(t)
    /\ UNCHANGED <<ia, calls, pushed>>
    /\ ThreadFrame

\* --- PopRand(): Remove(grand.Intn(len(a.array)))

CallPopRand(t) ==
    /\ Begin(t, "PopRand_len", NoLoc)
    /\ UNCHANGED <<ia, pushed, writer, readers>>
    /\ ThreadFrame

\* len(a.array) is read and the index drawn before Remove takes the lock.
PopRandLen(t) ==
    /\ pc[t] = "PopRand_len"
    /\ \E index \in IntnResults(Len(ia)) :
          IF index < 0
          THEN /\ pc' = [pc EXCEPT ![t] = "panicked"]
               /\ loc' = [loc EXCEPT ![t] = NoLoc]
          ELSE /\ pc' = [pc EXCEPT ![t] = "Remove_Lock"]
               /\ loc' = [loc EXCEPT ![t].idx = index]
    /\ UNCHANGED <<ia, calls, pushed, writer, readers>>
    /\ ThreadFrame

\* --- Remove(index): Lock; defer Unlock; remove a.array[index]

CallRemove(t) ==
    \E index \in 0..MaxConcInit :
        /\ Begin(t, "Remove_Lock", [NoLoc EXCEPT !.idx = index])
        /\ UNCHANGED <<ia, pushed, writer, readers>>
        /\ ThreadFrame

RemoveLock(t) ==
    /\ pc[t] = "Remove_Lock"
    /\ Lock(t)
    /\ Goto(t, "Remove_body")
    /\ UNCHANGED <<ia, loc, calls, pushed>>
    /\ ThreadFrame

RemoveBody(t) ==
    /\ pc[t] = "Remove_body"
    /\ LET r == IntRemoveResult(ia, loc[t].idx)
       IN  /\ ia' = r.array
           /\ loc' = [loc EXCEPT ![t].ret = r.val, ![t].fault = r.fault]
    /\ Goto(t, "Remove_Unlock")
    /\ UNCHANGED <<calls, pushed, writer, readers>>
    /\ ThreadFrame

RemoveUnlock(t) ==
    /\ pc[t] = "Remove_Unlock"
    /\ Unlock(t)
    /\ Return(t)
    /\ UNCHANGED <<ia, calls, pushed>>
    /\ ThreadFrame

\* --- Search(value), also as Contains(value) runs it

CallSearch(t) ==
    \E v \in PushVals :
        /\ Begin(t, "Search_len", [NoLoc EXCEPT !.val = v])
        /\ UNCHANGED <<ia, pushed, writer, readers>>
        /\ ThreadFrame

\* len(a.array) == 0 is tested before the lock is taken.
SearchLen(t) ==
    /\ pc[t] = "Search_len"
    /\ IF Len(ia) = 0
       THEN Return(t)
       ELSE Goto(t, "Search_RLock") /\ UNCHANGED loc
    /\ UNCHANGED <<ia, calls, pushed, writer, readers>>
    /\ ThreadFrame

SearchRLock(t) ==
    /\ pc[t] = "Search_RLock"
    /\ RLock(t)
    /\ Goto(t, "Search_scan")
    /\ UNCHANGED <<ia, loc, calls, pushed>>
    /\ ThreadFrame

SearchScan(t) ==
    /\ pc[t] = "Search_scan"
    /\ loc' = [loc EXCEPT ![t].ret = IntSearchResult(ia, loc[t].val)]
    /\ Goto(t, "Search_RUnlock")
    /\ UNCHANGED <<ia, calls, pushed, writer, readers>>
    /\ ThreadFrame

SearchRUnlock(t) ==
    /\ pc[t] = "Search_RUnlock"
    /\ RUnlock(t)
    /\ Return(t)
    /\ UNCHANGED <<ia, calls, pushed>>
    /\ ThreadFrame

ConcCall(t) ==
    \/ CallPushRight(t)
    \/ CallLen(t)
    \/ CallGet(t)
    \/ CallSet(t)
    \/ CallPopRand(t)
    \/ CallRemove(t)
    \/ CallSearch(t)

ConcStep(t) ==
    \/ PushStep(t)
    \/ GetRLock(t)
    \/ GetRead(t)
    \/ GetRUnlock(t)
    \/ SetLock(t)
    \/ SetWrite(t)
    \/ SetUnlock(t)
    \/ PopRandLen(t)
    \/ RemoveLock(t)
    \/ RemoveBody(t)
    \/ RemoveUnlock(t)
    \/ SearchLen(t)
    \/ SearchRLock(t)
    \/ SearchScan(t)
    \/ SearchRUnlock(t)

\* NewIntArrayFrom(s): an array in safe mode, shared by the threads.
InitConc ==
    /\ safe = TRUE
    /\ mu = "free"
    /\ ia \in SeqsUpTo(PushVals, MaxConcInit)
    /\ ilast = NoIntCall
    /\ array = <<>>
    /\ unique = FALSE
    /\ last = NoCall
    /\ NoThreads
    /\ NoStorage

NextConc == \E t \in Threads : ConcCall(t) \/ ConcStep(t)

SpecConc == InitConc /\ [][NextConc]_vars

\* ------------------------------------------------------------------------
\* Claims on the lock discipline (SpecConc, SpecGetSet)
\* ------------------------------------------------------------------------

\* Threads issuing Get, Set and Len calls only.
NextGetSet ==
    \E t \in Threads :
        \/ CallGet(t)
        \/ CallSet(t)
        \/ CallLen(t)
        \/ LenRLock(t)
        \/ LenRead(t)
        \/ LenRUnlock(t)
        \/ GetRLock(t)
        \/ GetRead(t)
        \/ GetRUnlock(t)
        \/ SetLock(t)
        \/ SetWrite(t)
        \/ SetUnlock(t)

SpecGetSet == InitConc /\ [][NextGetSet]_vars

\* The positions at which a mutating call reads or writes a.array.
MutatingAccess ==
    {"PushRight_read", "PushRight_write", "Set_write", "PopRand_len", "Remove_body"}

\* The positions at which a read-only call reads a.array.
ReadOnlyAccess ==
    {"Len_read", "Get_read", "Search_len", "Search_scan"}

\* C8: in safe mode a thread that is about to read or write the backing
\* sequence holds the exclusive lock if its call is a mutating one and the
\* shared lock if its call is read-only.
C8_AccessOnlyUnderLock ==
    safe =>
        \A t \in Threads :
            /\ pc[t] \in MutatingAccess => writer = t
            /\ pc[t] \in ReadOnlyAccess => readers[t] > 0

\* The positions between a mutating call's Lock and its Unlock.
InWriteSection(t) ==
    pc[t] \in {"PushRight_read", "PushRight_write", "PushRight_Unlock",
               "Set_write", "Set_Unlock", "Remove_body", "Remove_Unlock"}

\* The positions between a read-only call's RLock and its RUnlock.
InReadSection(t) ==
    pc[t] \in {"Len_read", "Len_RUnlock", "Get_read", "Get_RUnlock",
               "Search_scan", "Search_RUnlock"}

\* C9: in safe mode no thread is inside the critical section of a mutating
\* call while another thread is inside any critical section.
C9_WritersExclude ==
    safe =>
        \A t, u \in Threads :
            (t # u /\ InWriteSection(t)) => ~(InWriteSection(u) \/ InReadSection(u))

\* In safe mode two threads are inside read-only critical sections at once,
\* one in Get and one in Len, while no thread holds the exclusive lock.
C9_Witness ==
    /\ safe
    /\ writer = 0
    /\ \E t, u \in Threads :
          /\ t # u
          /\ pc[t] = "Get_read"
          /\ pc[u] = "Len_read"

\* ------------------------------------------------------------------------
\* IntArray: LockFunc with a callback that calls back into the array
\* (SpecLockFunc)
\* ------------------------------------------------------------------------

\* --- LockFunc(f): Lock; defer Unlock; f(a.array)

CallLockFunc(t) ==
    /\ Begin(t, "LockFunc_Lock", NoLoc)
    /\ UNCHANGED <<ia, pushed, writer, readers>>
    /\ ThreadFrame

LockFuncLockShared(t) ==
    /\ pc[t] = "LockFunc_Lock"
    /\ RLock(t)
    /\ Goto(t, "LockFunc_f")
    /\ UNCHANGED <<ia, loc, calls, pushed>>
    /\ ThreadFrame

LockFuncLock(t) ==
    /\ pc[t] = "LockFunc_Lock"
    /\ Lock(t)
    /\ Goto(t, "LockFunc_f")
    /\ UNCHANGED <<ia, loc, calls, pushed>>
    /\ ThreadFrame

\* The callback calls PushRight(1) on the array it was called for.
CallbackPushRight(t) ==
    /\ pc[t] = "LockFunc_f"
    /\ loc' = [loc EXCEPT ![t] = [NoLoc EXCEPT !.val = 1, !.inCallback = TRUE]]
    /\ Goto(t, "PushRight_Lock")
    /\ UNCHANGED <<ia, calls, pushed, writer, readers>>
    /\ ThreadFrame

\* The callback calls Len() on the array it was called for.
CallbackLen(t) ==
    /\ pc[t] = "LockFunc_f"
    /\ loc' = [loc EXCEPT ![t] = [NoLoc EXCEPT !.inCallback = TRUE]]
    /\ Goto(t, "Len_RLock")
    /\ UNCHANGED <<ia, calls, pushed, writer, readers>>
    /\ ThreadFrame

\* The callback returns without calling the array.
CallbackReturn(t) ==
    /\ pc[t] = "LockFunc_f"
    /\ Goto(t, "LockFunc_Unlock")
    /\ UNCHANGED <<ia, loc, calls, pushed, writer, readers>>
    /\ ThreadFrame

LockFuncUnlock(t) ==
    /\ pc[t] = "LockFunc_Unlock"
    /\ Unlock(t)
    /\ Goto(t, "idle")
    /\ UNCHANGED <<ia, loc, calls, pushed>>
    /\ ThreadFrame

\* A thread in a call, or in a callback, takes its next step.
LockFuncStep(t) ==
    \/ PushStep(t)
    \/ LockFuncLock(t)
    \/ CallbackPushRight(t)
    \/ CallbackLen(t)
    \/ CallbackReturn(t)
    \/ LockFuncUnlock(t)

\* NewIntArray(unsafe...): an empty array shared by the threads, in either
\* mode.
InitLockFunc ==
    /\ safe \in BOOLEAN
    /\ mu = "free"
    /\ ia = <<>>
    /\ ilast = NoIntCall
    /\ array = <<>>
    /\ unique = FALSE
    /\ last = NoCall
    /\ NoThreads
    /\ NoStorage

NextLockFunc ==
    \E t \in Threads :
        \/ CallLockFunc(t)
        \/ CallLen(t)
        \/ LockFuncStep(t)

\* A thread that can take a step eventually takes one (the scheduler runs
\* every runnable goroutine); nothing obliges a caller to start a call.
SpecLockFunc ==
    /\ InitLockFunc
    /\ [][NextLockFunc]_vars
    /\ \A t \in Threads : WF_vars(LockFuncStep(t))

\* C10: in safe mode a thread whose LockFunc callback has called PushRight or
\* Len on the same array stays at that call's lock acquisition for ever, so
\* the call never returns; in unsafe mode every such nested call completes and
\* LockFunc returns.
C10_CallbackReentryBlocks ==
    /\ [](safe => \A t \in Threads :
              loc[t].inCallback => pc[t] \in {"PushRight_Lock", "Len_RLock"})
    /\ \A t \in Threads : (~safe /\ loc[t].inCallback) ~> (pc[t] = "idle")

\* In safe mode a thread holds the exclusive lock through LockFunc and waits
\* for it again in the PushRight its callback called.
C10_Witness ==
    /\ safe
    /\ \E t \in Threads :
          /\ loc[t].inCallback
          /\ pc[t] = "PushRight_Lock"
          /\ writer = t

\* ------------------------------------------------------------------------
\* Range and SubSlice of the IntArray (SpecWindow), Chunk of both containers
\* (SpecChunk)
\* ------------------------------------------------------------------------

\* The width of int in the model; int arithmetic wraps at this width.
IntBits == 8

MaxInt == 2^(IntBits - 1) - 1

MinInt == -(2^(IntBits - 1))

\* The value of x as a two's complement int.
Wrap(x) == ((x + 2^(IntBits - 1)) % 2^IntBits) - 2^(IntBits - 1)

\* make([]T, n) panics for a negative n and for an n whose 8-byte elements
\* do not fit the address space.
MakeFaults(n) == n < 0 \/ n > MaxInt \div 8

\* s[lo:hi] panics unless 0 <= lo <= hi <= cap(s); the slices built here have
\* cap(s) = len(s).
SliceFaults(s, lo, hi) == lo < 0 \/ lo > hi \/ hi > Len(s)

\* make([]T, n) followed by copy(dst, src).
MakeCopy(n, src, zero) ==
    [i \in 1..n |-> IF i <= Len(src) THEN src[i] ELSE zero]

NoWindow == [res |-> <<>>, fault |-> FALSE]

\* The bounds Range(start, end...) computes on a container holding s; end is
\* the variadic argument, a sequence of length 0 or 1.
RangeBounds(s, start, end) ==
    LET offsetEnd == IF Len(end) > 0 /\ end[1] < Len(s) THEN end[1] ELSE Len(s)
    IN  [nil |-> start > offsetEnd,
         lo |-> IF start < 0 THEN 0 ELSE start,
         hi |-> offsetEnd]

\* Range(start, end...) on a container holding s.
RangeResult(s, isSafe, start, end, zero) ==
    LET b == RangeBounds(s, start, end)
    IN  IF b.nil THEN NoWindow
        ELSE IF isSafe
             THEN IF MakeFaults(b.hi - b.lo) \/ SliceFaults(s, b.lo, b.hi)
                  THEN [res |-> <<>>, fault |-> TRUE]
                  ELSE [res |-> MakeCopy(b.hi - b.lo, GoSlice(s, b.lo, b.hi), zero),
                        fault |-> FALSE]
             ELSE IF SliceFaults(s, b.lo, b.hi)
                  THEN [res |-> <<>>, fault |-> TRUE]
                  ELSE [res |-> GoSlice(s, b.lo, b.hi), fault |-> FALSE]

\* The bounds SubSlice(offset, length...) computes on a container holding s;
\* length is the variadic argument, a sequence of length 0 or 1.
SubSliceBounds(s, offset, length) ==
    LET size0 == IF Len(length) > 0 THEN length[1] ELSE Len(s)
        offset1 == IF offset < 0 THEN Len(s) + offset ELSE offset
        offset2 == IF size0 < 0 THEN Wrap(offset1 + size0) ELSE offset1
        size1 == IF size0 < 0 THEN Wrap(-size0) ELSE size0
        end0 == Wrap(offset2 + size1)
    IN  [nil |-> \/ offset > Len(s)
                 \/ offset < 0 /\ offset1 < 0
                 \/ size0 < 0 /\ offset2 < 0,
         lo |-> offset2,
         hi |-> IF end0 > Len(s) THEN Len(s) ELSE end0,
         size |-> IF end0 > Len(s) THEN Len(s) - offset2 ELSE size1]

\* SubSlice(offset, length...) on a container holding s.
SubSliceResult(s, isSafe, offset, length, zero) ==
    LET b == SubSliceBounds(s, offset, length)
    IN  IF b.nil THEN NoWindow
        ELSE IF isSafe
             THEN IF MakeFaults(b.size) \/ SliceFaults(s, b.lo, Len(s))
                  THEN [res |-> <<>>, fault |-> TRUE]
                  ELSE [res |-> MakeCopy(b.size, GoSlice(s, b.lo, Len(s)), zero),
                        fault |-> FALSE]
             ELSE IF SliceFaults(s, b.lo, b.hi)
                  THEN [res |-> <<>>, fault |-> TRUE]
                  ELSE [res |-> GoSlice(s, b.lo, b.hi), fault |-> FALSE]

\* The windows Chunk's loop appends, from window i on, chunks windows left.
RECURSIVE ChunkLoop(_, _, _, _)
ChunkLoop(s, size, i, chunks) ==
    IF chunks <= 0 THEN <<>>
    ELSE LET end0 == (i + 1) * size
             end == IF end0 > Len(s) THEN Len(s) ELSE end0
         IN  <<GoSlice(s, i * size, end)>> \o ChunkLoop(s, size, i + 1, chunks - 1)

\* Chunk with the number of windows rounded down.
ChunkResultFloor(s, size) ==
    IF size < 1 THEN <<>>
    ELSE ChunkLoop(s, size, 0, Len(s) \div size)

\* Chunk(size) on a container holding s: no window for size < 1, else
\* ceil(len/size) windows.
ChunkResult(s, size) ==
    IF size < 1 THEN <<>>
    ELSE ChunkLoop(s, size, 0, (Len(s) + size - 1) \div size)

\* The start, end, offset, length and size arguments: the ints near the index
\* range of the containers, and the two extreme ints.
WinArgs == (-(MaxInit + 2))..(MaxInit + 2) \cup {MinInt, MaxInt}

\* The variadic end and length arguments: omitted, or one int.
OptArgs == {<<>>} \cup {<<n>> : n \in WinArgs}

\* The IntArrays of SpecWindow.
WinIntArrays == SeqsUpTo(IntVals, MaxInit) \cup {<<1, 2, 3, 4, 5>>, <<10, 20, 30, 40>>}

\* A read-only call on the IntArray and what it returned.
IntWindowCall(name, a1, a2, r) ==
    [op |-> name, pre |-> ia, arg |-> a1, opt |-> a2, res |-> r.res,
     fault |-> r.fault]

\* A read-only call on the SortedStringArray and what it returned.
WindowCall(name, a1, a2, r) ==
    [op |-> name, pre |-> array, arg |-> a1, opt |-> a2, res |-> r.res,
     fault |-> r.fault]

\* A call on the IntArray is now the last call, and leaves the rest alone.
IntWindowFrame ==
    /\ last' = NoCall
    /\ UNCHANGED <<safe, mu, array, unique, ia, concVars, memVars>>

\* A call on the SortedStringArray is now the last call, and leaves the rest
\* alone.
WindowFrame ==
    /\ ilast' = NoIntCall
    /\ UNCHANGED <<safe, mu, array, unique, ia, concVars, memVars>>

\* IntArray.Range(start, end...)
IntRange ==
    \E start \in WinArgs, end \in OptArgs :
        /\ CanLock
        /\ ilast' = IntWindowCall("Range", start, end,
                                  RangeResult(ia, safe, start, end, 0))
        /\ IntWindowFrame

\* IntArray.SubSlice(offset, length...)
IntSubSlice ==
    \E offset \in WinArgs, length \in OptArgs :
        /\ CanLock
        /\ ilast' = IntWindowCall("SubSlice", offset, length,
                                  SubSliceResult(ia, safe, offset, length, 0))
        /\ IntWindowFrame

\* IntArray.Chunk(size)
IntChunk ==
    \E size \in WinArgs :
        /\ size < 1 \/ CanLock
        /\ ilast' = IntWindowCall("Chunk", size, <<>>,
                                  [res |-> ChunkResult(ia, size), fault |-> FALSE])
        /\ IntWindowFrame

\* SortedStringArray.Chunk(size)
Chunk ==
    \E size \in WinArgs :
        /\ size < 1 \/ CanLock
        /\ last' = WindowCall("Chunk", size, <<>>,
                              [res |-> ChunkResult(array, size), fault |-> FALSE])
        /\ WindowFrame

\* NewIntArrayFrom(s, unsafe...)
InitWindow ==
    /\ safe \in BOOLEAN
    /\ mu = "free"
    /\ ia \in WinIntArrays
    /\ ilast = NoIntCall
    /\ array = <<>>
    /\ unique = FALSE
    /\ last = NoCall
    /\ NoThreads
    /\ NoStorage

\* NewIntArrayFrom(s, unsafe...) or NewSortedStringArrayFrom(s, unsafe...):
\* one of the two containers is in use.
InitChunk ==
    /\ safe \in BOOLEAN
    /\ mu = "free"
    /\ \/ ia \in WinIntArrays /\ array = <<>>
       \/ ia = <<>> /\ \E s \in SeqsUpTo(Strs, MaxInit) : array = SortStrings(s)
    /\ ilast = NoIntCall
    /\ unique = FALSE
    /\ last = NoCall
    /\ NoThreads
    /\ NoStorage

NextWindow ==
    \/ IntRange
    \/ IntSubSlice

SpecWindow == InitWindow /\ [][NextWindow]_vars

NextChunk ==
    \/ IntChunk
    \/ Chunk

SpecChunk == InitChunk /\ [][NextChunk]_vars

\* ------------------------------------------------------------------------
\* Claims on Range, SubSlice and Chunk
\* ------------------------------------------------------------------------

\* The elements of s at the indices [lo, hi), none when the interval is empty.
Window(s, lo, hi) == IF lo >= hi THEN <<>> ELSE GoSlice(s, lo, hi)

Max(a, b) == IF a > b THEN a ELSE b

Min(a, b) == IF a < b THEN a ELSE b

\* C11: Range(start, end) never faults and returns the elements at
\* [max(start,0), min(end, length)), end defaulting to length, and nothing
\* when start exceeds that end.
C11_RangeClamps ==
    ilast.op = "Range" =>
        LET length == Len(ilast.pre)
            end == IF ilast.opt = <<>> THEN length ELSE Min(ilast.opt[1], length)
        IN  /\ ~ilast.fault
            /\ ilast.res = Window(ilast.pre, Max(ilast.arg, 0), end)

\* The offset SubSlice starts from: a negative offset counts from the end.
ResolvedOffset(s, offset) == IF offset < 0 THEN Len(s) + offset ELSE offset

\* r is a run of consecutive elements of s.
IsWindowOf(r, s) ==
    \E lo \in 0..Len(s) : \E hi \in lo..Len(s) : r = GoSlice(s, lo, hi)

\* C12: SubSlice(offset, length) never faults, returns only a run of the
\* container's elements, returns the same in both modes, and for a length
\* omitted or >= 0 returns the elements at [o, min(o + length, len)), or
\* nothing when o < 0 or offset > len.
C12_SubSliceClamps ==
    ilast.op = "SubSlice" =>
        LET s == ilast.pre
            o == ResolvedOffset(s, ilast.arg)
            length == IF ilast.opt = <<>> THEN Len(s) - o ELSE ilast.opt[1]
        IN  /\ ~ilast.fault
            /\ IsWindowOf(ilast.res, s)
            /\ ilast.res = SubSliceResult(s, ~safe, ilast.arg, ilast.opt, 0).res
            /\ (ilast.opt = <<>> \/ ilast.opt[1] >= 0) =>
                  ilast.res = IF o < 0 \/ ilast.arg > Len(s) THEN <<>>
                              ELSE Window(s, o, Min(o + length, Len(s)))

\* C13: SubSlice(offset, -k) with k > 0 returns the elements from the
\* resolved offset up to k elements before the end, [o, len - k).
C13_NegativeLengthStopsBeforeEnd ==
    (ilast.op = "SubSlice" /\ ilast.opt # <<>> /\ ilast.opt[1] < 0) =>
        LET s == ilast.pre
            o == ResolvedOffset(s, ilast.arg)
        IN  (0 <= o /\ ilast.arg <= Len(s)) =>
                ilast.res = Window(s, o, Len(s) + ilast.opt[1])

\* C14: on [1,2,3,4,5], SubSlice(-2,2) returns [4,5] and SubSlice(1,-1)
\* returns [2,3].
C14_SubSliceExamples ==
    (ilast.op = "SubSlice" /\ ilast.pre = <<1, 2, 3, 4, 5>>) =>
        /\ (ilast.arg = -2 /\ ilast.opt = <<2>>) => ilast.res = <<4, 5>>
        /\ (ilast.arg = 1 /\ ilast.opt = <<-1>>) => ilast.res = <<2, 3>>

\* The concatenation of the sequences of ss, in order.
RECURSIVE Flatten(_)
Flatten(ss) == IF ss = <<>> THEN <<>> ELSE Head(ss) \o Flatten(Tail(ss))

\* The least number of windows of size elements that cover n elements.
CeilDiv(n, size) == CHOOSE k \in 0..n : k * size >= n /\ (k = 0 \/ (k - 1) * size < n)

\* What C17 says of a Chunk call c made on a container that now holds now.
ChunkPartitions(c, now) ==
    LET size == c.arg
        n == Len(c.res)
    IN  /\ ~c.fault
        /\ now = c.pre
        /\ size < 1 => c.res = <<>>
        /\ c.pre = <<>> => c.res = <<>>
        /\ size >= 1 =>
              /\ n = CeilDiv(Len(c.pre), size)
              /\ Flatten(c.res) = c.pre
              /\ \A i \in 1..(n - 1) : Len(c.res[i]) = size
              /\ n > 0 => Len(c.res[n]) \in 1..size

\* C17: Chunk(size) with size >= 1 returns ceil(length/size) windows that
\* concatenate to the container's sequence, all of size elements except a
\* last one of 1..size; an empty container or size < 1 gives no window; the
\* container is unchanged.
C17_ChunkPartitions ==
    /\ ilast.op = "Chunk" => ChunkPartitions(ilast, ia)
    /\ last.op = "Chunk" => ChunkPartitions(last, array)

\* Chunk(2) on [1,2,3,4,5] has returned [[1,2],[3,4],[5]].
C17_Witness ==
    /\ ilast.op = "Chunk"
    /\ ilast.pre = <<1, 2, 3, 4, 5>>
    /\ ilast.arg = 2
    /\ ilast.res = <<<<1, 2>>, <<3, 4>>, <<5>>>>

\* ------------------------------------------------------------------------
\* IntArray: Fill and Pad (SpecGrow)
\* ------------------------------------------------------------------------

\* Fill's loop from index i up to, not including, stop: a slot past the end
\* is appended, a slot inside is overwritten.
RECURSIVE FillLoop(_, _, _, _)
FillLoop(a, i, stop, value) ==
    IF i >= stop THEN a
    ELSE FillLoop(IF i > Len(a) - 1 THEN Append(a, value)
                  ELSE [a EXCEPT ![i + 1] = value],
                  i + 1, stop, value)

\* Fill(startIndex, num, value) on a container holding a.
FillResult(a, startIndex, num, value) ==
    LET startIndex1 == IF startIndex < 0 THEN 0 ELSE startIndex
    IN  FillLoop(a, startIndex1, startIndex1 + num, value)

\* Pad that adds the new elements on the right whatever the sign of size.
PadResultRight(a, size, value) ==
    IF size = 0 \/ (size > 0 /\ size < Len(a)) \/ (size < 0 /\ size > -Len(a))
    THEN a
    ELSE LET n == (IF size < 0 THEN -size ELSE size) - Len(a)
         IN  a \o [i \in 1..n |-> value]

\* Pad(size, value) on a container holding a.
PadResult(a, size, value) ==
    IF size = 0 \/ (size > 0 /\ size < Len(a)) \/ (size < 0 /\ size > -Len(a))
    THEN a
    ELSE LET n == (IF size < 0 THEN -size ELSE size) - Len(a)
             tmp == [i \in 1..n |-> value]
         IN  IF size > 0 THEN a \o tmp ELSE tmp \o a

\* The values Fill and Pad write.
GrowVals == {0, 1}

\* The startIndex arguments of Fill.
FillStarts == (-2)..(MaxInit + 2)

\* The num arguments of Fill.
FillNums == (-1)..MaxArgs

\* The size arguments of Pad.
PadSizes == (-(MaxInit + 4))..(MaxInit + 4)

GrowCall(name, a1, a2, v) ==
    [op |-> name, pre |-> ia, arg |-> a1, num |-> a2, val |-> v]

\* Fill(startIndex, num, value), on a container of at most MaxInit elements.
IntFill ==
    \E startIndex \in FillStarts, num \in FillNums, value \in GrowVals :
        /\ CanLock
        /\ Len(ia) <= MaxInit
        /\ ia' = FillResult(ia, startIndex, num, value)
        /\ ilast' = GrowCall("Fill", startIndex, num, value)
        /\ IntFrame

\* Pad(size, value), on a container of at most MaxInit elements.
IntPad ==
    \E size \in PadSizes, value \in GrowVals :
        /\ CanLock
        /\ Len(ia) <= MaxInit
        /\ ia' = PadResult(ia, size, value)
        /\ ilast' = GrowCall("Pad", size, 0, value)
        /\ IntFrame

NextGrow ==
    \/ IntFill
    \/ IntPad

SpecGrow == InitWindow /\ [][NextGrow]_vars

\* The absolute value of n.
Abs(n) == IF n < 0 THEN -n ELSE n

\* C15: after Fill(startIndex, count, v) with count >= 0, the slots
\* s .. s+count-1, s = max(startIndex, 0), hold v, the length is
\* max(oldLength, s + count), and every other element is unchanged.
C15_FillWritesSlotsFromStart ==
    (ilast.op = "Fill" /\ ilast.num >= 0) =>
        LET s == Max(ilast.arg, 0)
            count == ilast.num
        IN  /\ Len(ia) = Max(Len(ilast.pre), s + count)
            /\ \A i \in 0..(Len(ia) - 1) :
                  IF s <= i /\ i < s + count THEN ia[i + 1] = ilast.val
                  ELSE i < Len(ilast.pre) /\ ia[i + 1] = ilast.pre[i + 1]

\* C16: Pad(size, v) leaves the sequence unchanged when |size| <= length;
\* otherwise the length becomes |size|, the original elements stay together
\* in order, and the added elements are v, on the right for size > 0 and on
\* the left for size < 0.
C16_PadGrowsToSize ==
    ilast.op = "Pad" =>
        LET old == ilast.pre
            n == Abs(ilast.arg) - Len(old)
        IN  IF Abs(ilast.arg) <= Len(old) THEN ia = old
            ELSE /\ Len(ia) = Abs(ilast.arg)
                 /\ ilast.arg > 0 =>
                       /\ SubSeq(ia, 1, Len(old)) = old
                       /\ \A i \in (Len(old) + 1)..Len(ia) : ia[i] = ilast.val
                 /\ ilast.arg < 0 =>
                       /\ SubSeq(ia, n + 1, Len(ia)) = old
                       /\ \A i \in 1..n : ia[i] = ilast.val

\* Pad(-7, 0) on [1,2,3] has given [0,0,0,0,1,2,3].
C16_Witness ==
    /\ ilast.op = "Pad"
    /\ ilast.pre = <<1, 2, 3>>
    /\ ilast.arg = -7
    /\ ilast.val = 0
    /\ ia = <<0, 0, 0, 0, 1, 2, 3>>

\* ------------------------------------------------------------------------
\* IntArray: the storage a.array shares with slices held by the caller
\* (SpecView, SpecAlias)
\* ------------------------------------------------------------------------

\* Longest a.array of the storage specifications.
MaxMemLen == 2

\* The indices callers pass to Get and Set and write through their slices.
MemIdx == 0..(MaxMemLen - 1)

\* The elements of a.array.
Content == SubSeq(store, hdr.off + 1, hdr.off + hdr.len)

\* cap(a.array)
Cap == Len(store) - hdr.off

\* The backing array of the slice the caller holds.
ExtStore == IF ext.shared THEN store ELSE ext.own

\* The elements of the slice the caller holds.
ExtContent == SubSeq(ExtStore, ext.off + 1, ext.off + ext.len)

\* The slice the caller holds: whether it shares the backing array of
\* a.array, its offset and length in its backing array, its backing array
\* when not shared, the call that made it, the elements the caller last saw
\* in it when it was made as a copy, and whether a.array has since moved to
\* another backing array or to another offset.

\* A slice with a backing array of its own.
OwnSlice(s, how) ==
    [held |-> TRUE, shared |-> FALSE, off |-> 0, len |-> Len(s), own |-> s,
     by |-> how, snap |-> s, moved |-> FALSE]

\* A slice of the backing array of a.array, from offset o, of n elements.
SharedSlice(o, n, how) ==
    [held |-> TRUE, shared |-> TRUE, off |-> o, len |-> n, own |-> <<>>,
     by |-> how, snap |-> <<>>, moved |-> FALSE]

\* a.array = block, a new backing array: a caller's slice of the old one
\* keeps the old one, of which only the slice's elements are modelled.
Reallocate(block, n) ==
    /\ store' = block
    /\ hdr' = [off |-> 0, len |-> n]
    /\ ext' = IF ~ext.held THEN ext
              ELSE IF ext.shared
              THEN [ext EXCEPT !.shared = FALSE, !.own = ExtContent, !.off = 0,
                               !.moved = TRUE]
              ELSE [ext EXCEPT !.moved = TRUE]

\* The last call: its name, and the index and value it was about.
MemCall(name, i, v) == [op |-> name, idx |-> i, val |-> v, pre |-> <<>>]

MemFrame == UNCHANGED <<safe, mu, sortedVars, ia, concVars>>

\* Get(index), index inside the array
MemGet ==
    \E index \in MemIdx :
        /\ CanLock
        /\ index < hdr.len
        /\ ilast' = MemCall("Get", index, Content[index + 1])
        /\ UNCHANGED memVars
        /\ MemFrame

\* Set(index, value), index inside the array
MemSet ==
    \E index \in MemIdx, value \in PushVals :
        /\ CanLock
        /\ index < hdr.len
        /\ store' = [store EXCEPT ![hdr.off + index + 1] = value]
        /\ ilast' = MemCall("Set", index, value)
        /\ UNCHANGED <<hdr, ext>>
        /\ MemFrame

\* PushRight(value): append writes in place while cap(a.array) allows, and
\* moves a.array to a new backing array of twice the capacity otherwise.
MemPushRight ==
    \E value \in PushVals :
        /\ CanLock
        /\ hdr.len < MaxMemLen
        /\ IF hdr.len < Cap
           THEN /\ store' = [store EXCEPT ![hdr.off + hdr.len + 1] = value]
                /\ hdr' = [hdr EXCEPT !.len = @ + 1]
                /\ UNCHANGED ext
           ELSE LET newcap == IF Cap = 0 THEN 1 ELSE 2 * Cap
                IN  Reallocate([i \in 1..newcap |->
                                   IF i <= hdr.len THEN Content[i]
                                   ELSE IF i = hdr.len + 1 THEN value ELSE 0],
                               hdr.len + 1)
        /\ ilast' = MemCall("PushRight", 0, value)
        /\ MemFrame

\* PushLeft(value): append(value, a.array...) builds a new backing array.
MemPushLeft ==
    \E value \in PushVals :
        /\ CanLock
        /\ hdr.len < MaxMemLen
        /\ Reallocate(<<value>> \o Content, hdr.len + 1)
        /\ ilast' = MemCall("PushLeft", 0, value)
        /\ MemFrame

\* PopLeft() on an array that is not empty: a.array = a.array[1:]
MemPopLeft ==
    /\ CanLock
    /\ hdr.len > 0
    /\ hdr' = [off |-> hdr.off + 1, len |-> hdr.len - 1]
    /\ ext' = IF ext.held THEN [ext EXCEPT !.moved = TRUE] ELSE ext
    /\ ilast' = MemCall("PopLeft", 0, 0)
    /\ UNCHANGED store
    /\ MemFrame

\* PopRight() on an array that is not empty: a.array = a.array[:index]
MemPopRight ==
    /\ CanLock
    /\ hdr.len > 0
    /\ hdr' = [hdr EXCEPT !.len = @ - 1]
    /\ ilast' = MemCall("PopRight", 0, 0)
    /\ UNCHANGED <<store, ext>>
    /\ MemFrame

\* The caller writes value to element index of the slice it holds; the
\* elements the caller last saw in it follow the write.
ExtWrite ==
    \E index \in MemIdx, value \in PushVals :
        /\ ext.held
        /\ index < ext.len
        /\ IF ext.shared
           THEN /\ store' = [store EXCEPT ![ext.off + index + 1] = value]
                /\ ext' = [ext EXCEPT !.snap = IF @ = <<>> THEN @
                                               ELSE [@ EXCEPT ![index + 1] = value]]
           ELSE /\ ext' = [ext EXCEPT !.own[ext.off + index + 1] = value,
                                      !.snap = IF @ = <<>> THEN @
                                               ELSE [@ EXCEPT ![index + 1] = value]]
                /\ UNCHANGED store
        /\ ilast' = [MemCall("ExtWrite", index, value) EXCEPT !.pre = Content]
        /\ UNCHANGED hdr
        /\ MemFrame

\* The start, end, offset and length arguments of the storage specifications.
MemArgs == (-1)..(MaxMemLen - 1)

\* The variadic end and length arguments: omitted, or one int.
MemOptArgs == {<<>>} \cup {<<n>> : n \in 0..(MaxMemLen - 1)}

\* Slice() that copies in both modes.
SliceResultCopy == OwnSlice(Content, "Slice")

\* Slice(): a copy in safe mode, a.array itself in unsafe mode.
SliceResult ==
    IF safe THEN OwnSlice(Content, "Slice")
    ELSE SharedSlice(hdr.off, hdr.len, "Slice")

\* Slice()
MemSlice ==
    /\ CanLock
    /\ ext' = SliceResult
    /\ ilast' = MemCall("Slice", 0, 0)
    /\ UNCHANGED <<store, hdr>>
    /\ MemFrame

\* Range(start, end...) that does not fault: nil, a copy in safe mode, a
\* slice of a.array in unsafe mode.
MemRange ==
    \E start \in MemArgs, end \in MemOptArgs :
        LET b == RangeBounds(Content, start, end)
            r == RangeResult(Content, safe, start, end, 0)
        IN  /\ CanLock
            /\ ~r.fault
            /\ ext' = IF b.nil \/ safe THEN OwnSlice(r.res, "Range")
                      ELSE SharedSlice(hdr.off + b.lo, b.hi - b.lo, "Range")
            /\ ilast' = MemCall("Range", 0, 0)
            /\ UNCHANGED <<store, hdr>>
            /\ MemFrame

\* SubSlice(offset, length...) that does not fault: nil, a copy in safe mode,
\* a slice of a.array in unsafe mode.
MemSubSlice ==
    \E offset \in MemArgs, length \in MemOptArgs :
        LET b == SubSliceBounds(Content, offset, length)
            r == SubSliceResult(Content, safe, offset, length, 0)
        IN  /\ CanLock
            /\ ~r.fault
            /\ ext' = IF b.nil \/ safe THEN OwnSlice(r.res, "SubSlice")
                      ELSE SharedSlice(hdr.off + b.lo, b.hi - b.lo, "SubSlice")
            /\ ilast' = MemCall("SubSlice", 0, 0)
            /\ UNCHANGED <<store, hdr>>
            /\ MemFrame

\* The arrays callers build the containers of the storage specifications from.
MemArrays == SeqsUpTo(PushVals, MaxMemLen - 1)

\* NewIntArrayFrom(s, unsafe...); the caller keeps no slice of s.
InitView ==
    /\ safe \in BOOLEAN
    /\ mu = "free"
    /\ ia = <<>>
    /\ ilast = NoIntCall
    /\ array = <<>>
    /\ unique = FALSE
    /\ last = NoCall
    /\ NoThreads
    /\ store \in MemArrays
    /\ hdr = [off |-> 0, len |-> Len(store)]
    /\ ext = NoExt

NextView ==
    \/ MemSlice
    \/ MemRange
    \/ MemSubSlice
    \/ MemSet
    \/ MemPushRight
    \/ MemPushLeft
    \/ MemPopLeft
    \/ ExtWrite

SpecView == InitView /\ [][NextView]_vars

\* s := []int{...}; NewIntArrayFrom(s, unsafe...) or
\* NewIntArrayFromCopy(s, unsafe...); the caller keeps s.
InitAlias ==
    /\ safe \in BOOLEAN
    /\ mu = "free"
    /\ ia = <<>>
    /\ ilast = NoIntCall
    /\ array = <<>>
    /\ unique = FALSE
    /\ last = NoCall
    /\ NoThreads
    /\ store \in MemArrays
    /\ hdr = [off |-> 0, len |-> Len(store)]
    /\ \/ ext = SharedSlice(0, Len(store), "NewFrom")
       \/ ext = OwnSlice(store, "NewFromCopy")

NextAlias ==
    \/ MemGet
    \/ MemSet
    \/ MemPushRight
    \/ MemPushLeft
    \/ MemPopLeft
    \/ MemPopRight
    \/ ExtWrite

SpecAlias == InitAlias /\ [][NextAlias]_vars

\* ------------------------------------------------------------------------
\* Claims on shared storage
\* ------------------------------------------------------------------------

\* A slice made as a copy is changed by no call on the container, and a write
\* to it does not change the container.
CopyIsIndependent ==
    /\ ExtContent = ext.snap
    /\ ilast.op = "ExtWrite" => Content = ilast.pre

\* The last call was Set(i, v) and the caller's slice has an element i
\* holding v.
SetVisibleInExt ==
    (ilast.op = "Set" /\ ilast.idx < ext.len) => ExtContent[ilast.idx + 1] = ilast.val

C19_AliasSharedForLifetime ==
    /\ ext.by = "NewFrom" =>
          /\ SetVisibleInExt
          /\ (ilast.op = "Get" /\ ilast.idx < ext.len) =>
                ilast.val = ExtContent[ilast.idx + 1]
    /\ ext.by = "NewFromCopy" => CopyIsIndependent

\* ------------------------------------------------------------------------
\* IntArray: Merge (SpecMerge)
\* ------------------------------------------------------------------------

\* The strings that are decimal numbers, in the order of their values.
Digits == <<"0", "1", "2", "3">>

\* gconv.Int of a string: its value when it is a number, 0 otherwise.
gconvInt(s) ==
    IF \E i \in 1..Len(Digits) : Digits[i] = s
    THEN (CHOOSE i \in 1..Len(Digits) : Digits[i] = s) - 1
    ELSE 0

\* gconv.Ints that leaves out the elements it cannot convert.
RECURSIVE gconvIntsDropping(_)
gconvIntsDropping(source) ==
    IF source.kind \in {"IntArray", "[]int"} THEN source.elems
    ELSE IF source.elems = <<>> THEN <<>>
    ELSE LET rest == gconvIntsDropping([source EXCEPT !.elems = Tail(@)])
             s == Head(source.elems)
         IN  IF \E i \in 1..Len(Digits) : Digits[i] = s
             THEN <<gconvInt(s)>> \o rest
             ELSE rest

\* gconv.Ints of a source: a []int as it is, every string converted.
gconvInts(source) ==
    IF source.kind \in {"IntArray", "[]int"} THEN source.elems
    ELSE [i \in 1..Len(source.elems) |-> gconvInt(source.elems[i])]

\* The strings of the string sources.
MergeStrs == {"2", "a"}

\* The sources of Merge other than the SortedStringArray of the model:
\* another IntArray, a []int, a StringArray and a []string.
MergeSources ==
    [kind : {"IntArray", "[]int"}, elems : SeqsUpTo(IntVals, MaxArgs)]
        \cup [kind : {"StringArray", "[]string"},
              elems : SeqsUpTo(MergeStrs, MaxArgs) \cup {<<"1", "2", "3">>}]

\* Merge(array): a.Append(gconv.Ints(v.Slice())...) for a container,
\* a.Append(gconv.Ints(array)...) for a slice.
IntMerge ==
    \E source \in MergeSources \cup {[kind |-> "SortedStringArray", elems |-> array]} :
        /\ CanLock
        /\ Len(ia) + Len(source.elems) <= MaxInit
        /\ ia' = ia \o gconvInts(source)
        /\ ilast' = [op |-> "Merge", pre |-> ia, source |-> source]
        /\ IntFrame

\* An IntArray and a SortedStringArray as NewIntArrayFrom and
\* NewSortedStringArrayFrom build them.
InitMerge ==
    /\ safe \in BOOLEAN
    /\ mu = "free"
    /\ ia \in SeqsUpTo(IntVals, 1)
    /\ ilast = NoIntCall
    /\ \E s \in SeqsUpTo({"1", "a"}, MaxArgs) : array = SortStrings(s)
    /\ unique = FALSE
    /\ last = NoCall
    /\ NoThreads
    /\ NoStorage

NextMerge == IntMerge

SpecMerge == InitMerge /\ [][NextMerge]_vars

\* C20: Merge(source) appends one converted element per source element, in
\* source order, after the existing elements, which stay as they were; an
\* element that cannot be converted contributes 0; the source is not
\* modified.
C20_MergeAppendsConverted ==
    ilast.op = "Merge" =>
        LET src == ilast.source.elems
            old == ilast.pre
        IN  /\ Len(ia) = Len(old) + Len(src)
            /\ SubSeq(ia, 1, Len(old)) = old
            /\ \A i \in 1..Len(src) :
                  LET v == ia[Len(old) + i]
                  IN  IF ilast.source.kind \in {"IntArray", "[]int"} THEN v = src[i]
                      ELSE \/ src[i] = "0" /\ v = 0
                           \/ src[i] = "1" /\ v = 1
                           \/ src[i] = "2" /\ v = 2
                           \/ src[i] = "3" /\ v = 3
                           \/ src[i] \notin {"0", "1", "2", "3"} /\ v = 0
            /\ ilast.source.kind = "SortedStringArray" => array = src

\* Merging the SortedStringArray ["1","a"] has appended [1,0] and left the
\* source as it was.
C20_Witness ==
    /\ ilast.op = "Merge"
    /\ ilast.source = [kind |-> "SortedStringArray", elems |-> <<"1", "a">>]
    /\ ia = ilast.pre \o <<1, 0>>
    /\ array = <<"1", "a">>

\* ------------------------------------------------------------------------
\* Claims on Merge, Remove and the lock of the sequential SortedStringArray
\* (Spec)
\* ------------------------------------------------------------------------

\* The distinct values of target and source.
MergedValues == Elems(last.pre) \cup Elems(last.args)

PermResults(n) ==
    {p \in [1..n -> 0..(n - 1)] : \A i, j \in 1..n : i # j => p[i] # p[j]}

\* The indices the loop of PopRands can draw on an array of length n: round i
\* draws grand.Intn of the length left after i - 1 removals.
PopRandsDraws(n, size) ==
    {d \in [1..size -> 0..(n - 1)] :
        \A i \in 1..size : d[i] \in IntnResults(n - (i - 1))}

\* The loop of PopRands with every drawn element left in the array.
RECURSIVE PopRandsLoopKeeping(_, _, _)
PopRandsLoopKeeping(arr, draws, out) ==
    IF draws = <<>> THEN [array |-> arr, vals |-> out, fault |-> FALSE]
    ELSE PopRandsLoopKeeping(arr, Tail(draws), Append(out, arr[Head(draws) + 1]))

\* The loop of PopRands: each round stores the element at the drawn index and
\* closes the gap it leaves.
RECURSIVE PopRandsLoop(_, _, _)
PopRandsLoop(arr, draws, out) ==
    IF draws = <<>> THEN [array |-> arr, vals |-> out, fault |-> FALSE]
    ELSE LET index == Head(draws)
         IN  PopRandsLoop(GoSlice(arr, 0, index) \o GoSlice(arr, index + 1, Len(arr)),
                          Tail(draws), Append(out, arr[index + 1]))

\* The size PopRands and Rands work with: the argument, lowered to the length.
ClampedSize(arr, size) == IF size > Len(arr) THEN Len(arr) ELSE size

\* The loop of Rands over the permutation perm, from round i: n[i] is written
\* before the test i == size-1, and faults when n has no slot i.
RECURSIVE RandsLoop(_, _, _, _, _)
RandsLoop(arr, size, perm, i, n) ==
    IF i >= Len(perm) THEN [vals |-> n, fault |-> FALSE]
    ELSE IF i >= Len(n) THEN [vals |-> n, fault |-> TRUE]
    ELSE LET next == [n EXCEPT ![i + 1] = arr[perm[i + 1] + 1]]
         IN  IF i = size - 1 THEN [vals |-> next, fault |-> FALSE]
             ELSE RandsLoop(arr, size, perm, i + 1, next)

\* Rands(size) when grand.Perm returns perm.
RandsResult(arr, size, perm, zero) ==
    LET n == ClampedSize(arr, size)
    IN  IF MakeFaults(n) THEN [vals |-> <<>>, fault |-> TRUE]
        ELSE RandsLoop(arr, n, perm, 0, MakeCopy(n, <<>>, zero))

\* The sizes callers pass to PopRands and Rands.
PopSizes == (-1)..(MaxInit + 1)

\* A PopRands or Rands call on a container holding pre, and what it returned.
PopCall(name, pre, size, draws, r) ==
    [op |-> name, pre |-> pre, size |-> size, draws |-> draws, vals |-> r.vals,
     fault |-> r.fault]

\* SortedStringArray.PopRands(size): the lock is released by defer.
PopRands ==
    \E size \in PopSizes :
        LET n == ClampedSize(array, size)
        IN  /\ CanLock
            /\ IF MakeFaults(n)
               THEN /\ array' = array
                    /\ last' = PopCall("PopRands", array, size, <<>>,
                                       [vals |-> <<>>, fault |-> TRUE])
               ELSE \E draws \in PopRandsDraws(Len(array), n) :
                        LET r == PopRandsLoop(array, draws, <<>>)
                        IN  /\ array' = r.array
                            /\ last' = PopCall("PopRands", array, size, draws, r)
            /\ UNCHANGED <<safe, mu, unique, intVars, concVars, memVars>>

\* SortedStringArray.Rands(size)
Rands ==
    \E size \in PopSizes, perm \in PermResults(Len(array)) :
        /\ CanLock
        /\ last' = PopCall("Rands", array, size, perm,
                           RandsResult(array, size, perm, ""))
        /\ UNCHANGED <<safe, mu, array, unique, intVars, concVars, memVars>>

\* IntArray.PopRands(size)
IntPopRands ==
    \E size \in PopSizes :
        LET n == ClampedSize(ia, size)
        IN  /\ CanLock
            /\ IF MakeFaults(n)
               THEN /\ ia' = ia
                    /\ ilast' = PopCall("PopRands", ia, size, <<>>,
                                        [vals |-> <<>>, fault |-> TRUE])
               ELSE \E draws \in PopRandsDraws(Len(ia), n) :
                        LET r == PopRandsLoop(ia, draws, <<>>)
                        IN  /\ ia' = r.array
                            /\ ilast' = PopCall("PopRands", ia, size, draws, r)
            /\ IntFrame

\* IntArray.Rands(size)
IntRands ==
    \E size \in PopSizes, perm \in PermResults(Len(ia)) :
        /\ CanLock
        /\ ilast' = PopCall("Rands", ia, size, perm, RandsResult(ia, size, perm, 0))
        /\ UNCHANGED ia
        /\ IntFrame

\* The container in use is the SortedStringArray: no IntArray was built.
SortedInUse == NoIntArray

\* The container in use is the IntArray: no SortedStringArray was built.
IntInUse == array = <<>> /\ last = NoCall

\* NewSortedStringArrayFrom(s, unsafe...) or NewIntArrayFrom(s, unsafe...):
\* one of the two containers is in use.
InitPop ==
    /\ safe \in BOOLEAN
    /\ mu = "free"
    /\ \/ ia \in SeqsUpTo(PushVals, MaxInit) /\ array = <<>>
       \/ ia = <<>> /\ \E s \in SeqsUpTo(Strs, MaxInit) : array = SortStrings(s)
    /\ ilast = NoIntCall
    /\ unique = FALSE
    /\ last = NoCall
    /\ NoThreads
    /\ NoStorage

NextPop ==
    \/ SortedInUse /\ Remove
    \/ SortedInUse /\ PopLeft
    \/ SortedInUse /\ PopRight
    \/ SortedInUse /\ PopRand
    \/ SortedInUse /\ PopRands
    \/ SortedInUse /\ Rands
    \/ IntInUse /\ IntRemove
    \/ IntInUse /\ IntPopRands
    \/ IntInUse /\ IntRands

SpecPop == InitPop /\ [][NextPop]_vars

\* ------------------------------------------------------------------------
\* Claims on Remove, the Pop operations and Rands (SpecPop)
\* ------------------------------------------------------------------------

\* The elements of s at the 1-based positions from i on that are not in P, in
\* the order of s.
RECURSIVE DropAt(_, _, _)
DropAt(s, P, i) ==
    IF i > Len(s) THEN <<>>
    ELSE (IF i \in P THEN <<>> ELSE <<s[i]>>) \o DropAt(s, P, i + 1)

\* now is pre with the elements at some positions taken out and nothing
\* reordered.
KeepsOrder(pre, now) == \E P \in SUBSET (1..Len(pre)) : now = DropAt(pre, P, 1)

\* The calls on the SortedStringArray that take elements out.
Removals == {"Remove", "PopLeft", "PopRight", "PopRand", "PopRands"}

\* C22: Remove(index) with 0 <= index < length returns the element that was
\* at index and leaves exactly the other elements in their previous order, on
\* both containers, for a first, a last and an interior index. Remove,
\* PopLeft, PopRight, PopRand and PopRands never reorder the remaining
\* elements: the sorted container stays sorted, and duplicate-free when it was.
C22_RemoveKeepsOrder ==
    /\ (last.op \in {"Remove", "PopRand"} /\ 0 <= last.idx /\ last.idx < Len(last.pre)) =>
          /\ ~last.fault
          /\ last.val = last.pre[last.idx + 1]
          /\ Len(array) = Len(last.pre) - 1
          /\ array = DropAt(last.pre, {last.idx + 1}, 1)
    /\ (ilast.op = "Remove" /\ 0 <= ilast.idx /\ ilast.idx < Len(ilast.pre)) =>
          /\ ~ilast.fault
          /\ ilast.val = ilast.pre[ilast.idx + 1]
          /\ Len(ia) = Len(ilast.pre) - 1
          /\ ia = DropAt(ilast.pre, {ilast.idx + 1}, 1)
    /\ last.op \in Removals =>
          /\ KeepsOrder(last.pre, array)
          /\ IsSorted(array)
          /\ NoDuplicates(last.pre) => NoDuplicates(array)

\* A Remove of the interior element of a sorted container of three.
C22_Witness ==
    /\ last.op = "Remove"
    /\ last.pre = <<"1", "a", "b">>
    /\ last.idx = 1
    /\ last.val = "a"
    /\ array = <<"1", "b">>

\* vals are the elements of pre at min(size, length) pairwise distinct
\* positions, now is pre without those positions, and vals and now together
\* hold every value as often as pre did.
TakesDistinctPositions(pre, now, vals, size) ==
    LET k == Min(size, Len(pre))
    IN  /\ Len(vals) = k
        /\ \E f \in [1..k -> 1..Len(pre)] :
              /\ \A i, j \in 1..k : i # j => f[i] # f[j]
              /\ \A i \in 1..k : vals[i] = pre[f[i]]
              /\ now = DropAt(pre, {f[i] : i \in 1..k}, 1)
        /\ \A v \in Elems(pre) : Count(vals, v) + Count(now, v) = Count(pre, v)
        /\ Elems(vals) \cup Elems(now) \subseteq Elems(pre)

\* C23: PopRands(n) with n >= 0 returns, without a fault, exactly
\* min(n, length) elements taken from pairwise distinct positions and removes
\* exactly those positions, on both containers and for every drawn index.
C23_PopRandsTakesDistinctPositions ==
    /\ (last.op = "PopRands" /\ last.size >= 0) =>
          /\ ~last.fault
          /\ TakesDistinctPositions(last.pre, array, last.vals, last.size)
    /\ (ilast.op = "PopRands" /\ ilast.size >= 0) =>
          /\ ~ilast.fault
          /\ TakesDistinctPositions(ilast.pre, ia, ilast.vals, ilast.size)

\* PopRands(2) on the sorted container ["1","a","b"] draws index 2 and then
\* index 0: it returns ["b","1"] and leaves ["a"].
C23_Witness ==
    /\ last.op = "PopRands"
    /\ last.pre = <<"1", "a", "b">>
    /\ last.size = 2
    /\ last.draws = <<2, 0>>
    /\ last.vals = <<"b", "1">>
    /\ array = <<"a">>

\* vals are the elements of pre at min(size, length) pairwise distinct
\* positions.
ReadsDistinctPositions(pre, vals, size) ==
    LET k == Min(size, Len(pre))
    IN  /\ Len(vals) = k
        /\ \E f \in [1..k -> 1..Len(pre)] :
              /\ \A i, j \in 1..k : i # j => f[i] # f[j]
              /\ \A i \in 1..k : vals[i] = pre[f[i]]

\* C24: Rands(n) for every n >= 0, n = 0 and the empty container included,
\* returns without a fault exactly min(n, length) elements read from pairwise
\* distinct positions, and leaves the container unchanged, on both containers.
C24_RandsReadsDistinctPositions ==
    /\ (last.op = "Rands" /\ last.size >= 0) =>
          /\ ~last.fault
          /\ ReadsDistinctPositions(last.pre, last.vals, last.size)
          /\ array = last.pre
    /\ (ilast.op = "Rands" /\ ilast.size >= 0) =>
          /\ ~ilast.fault
          /\ ReadsDistinctPositions(ilast.pre, ilast.vals, ilast.size)
          /\ ia = ilast.pre

\* ------------------------------------------------------------------------
\* Pushing and popping at the two ends of the IntArray (SpecDeque)
\* ------------------------------------------------------------------------

NextDeque ==
    \/ IntPushLeft
    \/ IntPushRight
    \/ IntAppend
    \/ IntPopLeft
    \/ IntPopRight

SpecDeque == InitInt /\ [][NextDeque]_vars

\* C25: with S the sequence before the call, PushRight(v1..vk) and
\* Append(v1..vk) leave S followed by v1..vk and PushLeft(v1..vk) leaves
\* v1..vk followed by S; on a non-empty container PopLeft returns and removes
\* the first element and PopRight the last, leaving the others in order; and
\* a PopRight directly after PushRight(v) returns v and leaves the sequence
\* PushRight(v) was called on.
C25_PushPopAtTheEnds ==
    /\ [](/\ ilast.op \in {"PushRight", "Append"} => ia = ilast.pre \o ilast.args
          /\ ilast.op = "PushLeft" => ia = ilast.args \o ilast.pre
          /\ (ilast.op = "PopLeft" /\ ilast.pre # <<>>) =>
                /\ ~ilast.fault
                /\ ilast.val = Head(ilast.pre)
                /\ ia = Tail(ilast.pre)
          /\ (ilast.op = "PopRight" /\ ilast.pre # <<>>) =>
                /\ ~ilast.fault
                /\ ilast.val = ilast.pre[Len(ilast.pre)]
                /\ ia = SubSeq(ilast.pre, 1, Len(ilast.pre) - 1))
    /\ [][(/\ ilast.op = "PushRight"
           /\ Len(ilast.args) = 1
           /\ ilast'.op = "PopRight")
              => (/\ ilast'.val = ilast.args[1]
                  /\ ~ilast'.fault
                  /\ ia' = ilast.pre)]_vars

\* A PopRight on [1,2,3], the sequence PushRight(3) leaves on [1,2]: it
\* returned 3 and left [1,2].
C25_Witness ==
    /\ ilast.op = "PopRight"
    /\ ilast.pre = <<1, 2, 3>>
    /\ ilast.val = 3
    /\ ia = <<1, 2>>

\* ------------------------------------------------------------------------
\* binSearch as Add and Search call it (SpecBin)
\* ------------------------------------------------------------------------

\* The strings searched for and added.
BinVals == Elems(StrOrder)

\* A call that ran binSearch(value) on the array, and what binSearch returned.
BinCall(name, value, r) ==
    [op |-> name, pre |-> array, preUnique |-> unique, value |-> value,
     index |-> r[1], cmp |-> r[2]]

\* Add(value): binSearch(value, false), then the splice of AddOne.
AddValue ==
    \E value \in BinVals :
        /\ Len(array) < MaxLen
        /\ CanLock
        /\ array' = AddOne(array, unique, value)
        /\ last' = BinCall("Add", value, binSearch(array, value))
        /\ UNCHANGED <<safe, mu, unique, intVars, concVars, memVars>>

\* Search(value): binSearch(value, true).
SearchValue ==
    \E value \in BinVals :
        /\ array = <<>> \/ CanLock
        /\ last' = BinCall("Search", value, binSearch(array, value))
        /\ UNCHANGED <<safe, mu, array, unique, intVars, concVars, memVars>>

NextBin ==
    \/ AddValue
    \/ SearchValue

SpecBin == Init /\ [][NextBin]_vars

\* s with v put in at the 0-based position at.
InsertedAt(s, at, v) == (SubSeq(s, 1, at) \o <<v>>) \o SubSeq(s, at + 1, Len(s))

InitPopRand ==
    /\ safe = TRUE
    /\ mu = "free"
    /\ ia \in SeqsUpTo(PushVals, MaxConcInit + 1)
    /\ Len(ia) >= NThreads
    /\ ilast = [NoIntCall EXCEPT !.pre = ia]
    /\ array = <<>>
    /\ unique = FALSE
    /\ last = NoCall
    /\ NoThreads
    /\ NoStorage

NextPopRand ==
    \E t \in Threads :
        \/ CallPopRand(t)
        \/ PopRandLen(t)
        \/ RemoveLock(t)
        \/ RemoveBody(t)
        \/ RemoveUnlock(t)

SpecPopRand == InitPopRand /\ [][NextPopRand]_vars

\* The number of calls the threads 1..n have issued.
RECURSIVE CallsIssued(_)
CallsIssued(n) == IF n = 0 THEN 0 ELSE calls[n] + CallsIssued(n - 1)

\* C27: in safe mode, when m threads each call PopRand once on a container
\* holding k >= m elements and nothing else runs, no call faults, every call
\* returns an element that was in the container, and once all calls have
\* returned the container holds k - m elements.
C27_ConcurrentPopRand ==
    safe =>
        /\ \A t \in Threads :
              /\ pc[t] # "panicked"
              /\ ~loc[t].fault
              /\ pc[t] = "Remove_Unlock" => loc[t].ret \in Elems(ilast.pre)
        /\ (\A t \in Threads : pc[t] = "idle") =>
              Len(ia) = Len(ilast.pre) - CallsIssued(NThreads)

\* ------------------------------------------------------------------------
\* SortedStringArray: threads sharing one container (SpecAdd, SpecFlag)
\* ------------------------------------------------------------------------

\* Most calls one thread issues when the threads call SetUnique and Add.
MaxFlagCalls == 2

\* The strings the threads add.
AddVals == {"1", "a"}

\* The arguments of the threads' Add calls.
AddArgs == {<<>>, <<"1">>, <<"a">>, <<"a", "1">>}

\* A thread's arguments and locals in a call on the SortedStringArray.
NoSortedLoc ==
    [values |-> <<>>, flag |-> FALSE, old |-> FALSE, at |-> -1, rear |-> <<>>]

SortedThreadFrame == UNCHANGED <<safe, mu, last, intVars, memVars>>

\* The call of thread t returns.
SortedReturn(t) ==
    /\ pc' = [pc EXCEPT ![t] = "idle"]
    /\ loc' = [loc EXCEPT ![t] = NoSortedLoc]

\* --- Add(values...): return at once without values; Lock; defer Unlock;
\* --- for each value: binSearch, unique.Val(), splice

CallAdd(t, max) ==
    \E values \in AddArgs :
        /\ BeginUpTo(t, IF values = <<>> THEN "idle" ELSE "Add_Lock",
                     [NoSortedLoc EXCEPT !.values = values], max)
        /\ pushed' = [v \in AddVals |-> pushed[v] + Count(values, v)]
        /\ UNCHANGED <<array, unique, writer, readers>>
        /\ SortedThreadFrame

AddLockNone(t) ==
    /\ pc[t] = "Add_Lock"
    /\ Goto(t, "Add_search")
    /\ UNCHANGED <<array, unique, loc, calls, pushed, writer, readers>>
    /\ SortedThreadFrame

AddLock(t) ==
    /\ pc[t] = "Add_Lock"
    /\ Lock(t)
    /\ Goto(t, "Add_search")
    /\ UNCHANGED <<array, unique, loc, calls, pushed>>
    /\ SortedThreadFrame

\* One round of the loop up to the copy of the rear: the binary search, the
\* read of the flag, rear := append([]string{}, a.array[index:]...). A
\* skipped value ends the round; after the last value the deferred Unlock
\* runs.
AddSearch(t) ==
    /\ pc[t] = "Add_search"
    /\ IF loc[t].values = <<>>
       THEN Goto(t, "Add_Unlock") /\ UNCHANGED loc
       ELSE LET r == binSearch(array, Head(loc[t].values))
            IN  IF SkipValue(unique, r[2])
                THEN /\ loc' = [loc EXCEPT ![t].values = Tail(@)]
                     /\ UNCHANGED pc
                ELSE IF r[1] < 0
                THEN /\ loc' = [loc EXCEPT ![t].at = -1, ![t].rear = <<>>]
                     /\ Goto(t, "Add_write")
                ELSE LET at == InsertIndex(r[1], r[2])
                     IN  /\ loc' = [loc EXCEPT ![t].at = at,
                                               ![t].rear = GoSlice(array, at, Len(array))]
                         /\ Goto(t, "Add_write")
    /\ UNCHANGED <<array, unique, calls, pushed, writer, readers>>
    /\ SortedThreadFrame

\* The rest of the round: a.array = append(a.array, value) on the empty
\* array, otherwise a.array = append(append(a.array[0:index], value), rear...).
AddWrite(t) ==
    /\ pc[t] = "Add_write"
    /\ array' = IF loc[t].at < 0 THEN Append(array, Head(loc[t].values))
                ELSE (GoSlice(array, 0, loc[t].at) \o <<Head(loc[t].values)>>)
                         \o loc[t].rear
    /\ loc' = [loc EXCEPT ![t].values = Tail(@), ![t].at = -1, ![t].rear = <<>>]
    /\ Goto(t, "Add_search")
    /\ UNCHANGED <<unique, calls, pushed, writer, readers>>
    /\ SortedThreadFrame

AddUnlock(t) ==
    /\ pc[t] = "Add_Unlock"
    /\ Unlock(t)
    /\ SortedReturn(t)
    /\ UNCHANGED <<array, unique, calls, pushed>>
    /\ SortedThreadFrame

\* --- SetUnique(unique): oldUnique := a.unique.Val(); a.unique.Set(unique);
\* --- Unique() when the flag went from off to on

CallSetUnique(t) ==
    \E flag \in BOOLEAN :
        /\ BeginUpTo(t, "SetUnique_read", [NoSortedLoc EXCEPT !.flag = flag],
                     MaxFlagCalls)
        /\ UNCHANGED <<array, unique, pushed, writer, readers>>
        /\ SortedThreadFrame

SetUniqueRead(t) ==
    /\ pc[t] = "SetUnique_read"
    /\ loc' = [loc EXCEPT ![t].old = unique]
    /\ Goto(t, "SetUnique_write")
    /\ UNCHANGED <<array, unique, calls, pushed, writer, readers>>
    /\ SortedThreadFrame

SetUniqueWrite(t) ==
    /\ pc[t] = "SetUnique_write"
    /\ unique' = loc[t].flag
    /\ IF loc[t].flag /\ loc[t].old # loc[t].flag
       THEN Goto(t, "Unique_Lock") /\ UNCHANGED loc
       ELSE SortedReturn(t)
    /\ UNCHANGED <<array, calls, pushed, writer, readers>>
    /\ SortedThreadFrame

\* --- Unique(): Lock; the dedup loop; Unlock (no defer)

UniqueLock(t) ==
    /\ pc[t] = "Unique_Lock"
    /\ Lock(t)
    /\ Goto(t, "Unique_loop")
    /\ UNCHANGED <<array, unique, loc, calls, pushed>>
    /\ SortedThreadFrame

\* A fault in the loop ends the thread with the lock held.
UniqueBody(t) ==
    /\ pc[t] = "Unique_loop"
    /\ LET r == UniqueResult(array)
       IN  /\ array' = r.array
           /\ Goto(t, IF r.fault THEN "panicked" ELSE "Unique_Unlock")
    /\ UNCHANGED <<unique, loc, calls, pushed, writer, readers>>
    /\ SortedThreadFrame

UniqueUnlock(t) ==
    /\ pc[t] = "Unique_Unlock"
    /\ Unlock(t)
    /\ SortedReturn(t)
    /\ UNCHANGED <<array, unique, calls, pushed>>
    /\ SortedThreadFrame

\* A thread in Add takes its next step.
AddStep(t) ==
    \/ AddLock(t)
    \/ AddSearch(t)
    \/ AddWrite(t)
    \/ AddUnlock(t)

\* A thread in SetUnique takes its next step.
SetUniqueStep(t) ==
    \/ SetUniqueRead(t)
    \/ SetUniqueWrite(t)
    \/ UniqueLock(t)
    \/ UniqueBody(t)
    \/ UniqueUnlock(t)

\* A sorted container in safe mode, shared by the threads, as earlier calls
\* left it: sorted, and without duplicates if they left the flag on. last
\* keeps the contents and the flag the threads start from.
InitAdd ==
    /\ safe = TRUE
    /\ mu = "free"
    /\ \E s \in SeqsUpTo(AddVals, MaxConcInit) : array = SortStrings(s)
    /\ unique \in BOOLEAN
    /\ unique => NoDuplicates(array)
    /\ last = [NoCall EXCEPT !.pre = array, !.preUnique = unique]
    /\ NoIntArray
    /\ writer = 0
    /\ readers = [t \in Threads |-> 0]
    /\ pc = [t \in Threads |-> "idle"]
    /\ loc = [t \in Threads |-> NoSortedLoc]
    /\ calls = [t \in Threads |-> 0]
    /\ pushed = [v \in AddVals |-> 0]
    /\ NoStorage

\* Threads that each issue up to MaxCalls Add calls.
NextAdd == \E t \in Threads : CallAdd(t, MaxCalls) \/ AddStep(t)

SpecAdd == InitAdd /\ [][NextAdd]_vars

\* Threads that each issue up to MaxFlagCalls SetUnique and Add calls.
NextFlag ==
    \E t \in Threads :
        \/ CallAdd(t, MaxFlagCalls)
        \/ CallSetUnique(t)
        \/ AddStep(t)
        \/ SetUniqueStep(t)

SpecFlag == InitAdd /\ [][NextFlag]_vars

\* ------------------------------------------------------------------------
\* Claims on concurrent calls on the sorted container (SpecFlag, SpecAdd)
\* ------------------------------------------------------------------------

\* Every call issued so far has returned.
AllReturned == \A t \in Threads : pc[t] = "idle"

\* C28: in safe mode, once all concurrently issued SetUnique(true),
\* SetUnique(false) and Add calls have returned, a container whose
\* uniqueness flag is on holds no two equal elements.
C28_FlagOnMeansNoDuplicates ==
    (safe /\ AllReturned /\ unique) => NoDuplicates(array)

\* The sequences that hold each value v as often as Add calls were issued
\* with it: the added values in every order.
AddedInSomeOrder ==
    LET total == pushed["1"] + pushed["a"]
    IN  {s \in [1..total -> AddVals] : \A v \in AddVals : Count(s, v) = pushed[v]}

C30_LockReleasedOnEveryPath ==
    last.op # "new" => (mu = "free" /\ CanLock)

\* ------------------------------------------------------------------------
\* SortedStringArray: threads under a scheduler that runs every runnable
\* thread (SpecFlagFair)
\* ------------------------------------------------------------------------

\* The labels at which a thread waits for the exclusive lock of the sorted
\* container.
SortedLockLabels == {"Add_Lock", "Unique_Lock"}

\* A thread in a call takes its next step.
SortedStep(t) == AddStep(t) \/ SetUniqueStep(t)

\* The threads of SpecFlag; a thread that can take a step eventually takes
\* one, and nothing obliges a caller to start a call. Every thread issues
\* finitely many calls, so a lock that is free stays free until a waiting
\* thread takes it and weak fairness makes the lock fair.
SpecFlagFair ==
    /\ InitAdd
    /\ [][NextFlag]_vars
    /\ \A t \in Threads : WF_vars(SortedStep(t))

\* ------------------------------------------------------------------------
\* Claim on the absence of deadlock (SpecFlagFair)
\* ------------------------------------------------------------------------

\* No thread waits for the lock while holding it.
NoLockReentry ==
    \A t \in Threads :
        pc[t] \in SortedLockLabels => (writer # t /\ readers[t] = 0)

\* Every call a thread has issued returns.
EveryCallReturns == \A t \in Threads : (pc[t] # "idle") ~> (pc[t] = "idle")

\* C31: no operation takes the container's lock while it holds it (SetUnique
\* takes it only through Unique, after its own reads and writes of the flag),
\* and so, in safe mode with a fair lock and finitely many threads issuing
\* Add and SetUnique calls, every call that was issued eventually returns.
C31_NoReentryEveryCallReturns ==
    /\ []NoLockReentry
    /\ safe => EveryCallReturns

\* ------------------------------------------------------------------------
\* IntArray: the slices Chunk, PopLefts and PopRights hand to the caller
\* (SpecHanded)
\* ------------------------------------------------------------------------

\* The size arguments of Chunk, PopLefts and PopRights.
HandedSizes == 0..(MaxMemLen + 1)

\* The indices callers pass to Remove.
RemoveIdx == 0..MaxMemLen

\* a.array[lo:hi], handed to the caller as it is: a slice of the backing
\* array of a.array, with the elements the caller sees in it.
HandedSlice(lo, hi, how) ==
    [SharedSlice(hdr.off + lo, hi - lo, how) EXCEPT !.snap = GoSlice(Content, lo, hi)]

\* Chunk(size), size >= 1: the caller keeps window i of the result, nil when
\* the container is empty.
MemChunk ==
    \E size \in HandedSizes, i \in 0..MaxMemLen :
        LET chunks == (hdr.len + size - 1) \div size
            end0 == (i + 1) * size
            end == IF end0 > hdr.len THEN hdr.len ELSE end0
        IN  /\ size >= 1
            /\ CanLock
            /\ IF chunks = 0
               THEN i = 0 /\ ext' = OwnSlice(<<>>, "Chunk")
               ELSE i < chunks /\ ext' = HandedSlice(i * size, end, "Chunk")
            /\ ilast' = MemCall("Chunk", i, size)
            /\ UNCHANGED <<store, hdr>>
            /\ MemFrame

\* PopLefts(size): value := a.array[0:size]; a.array = a.array[size:]
MemPopLefts ==
    \E size \in HandedSizes :
        LET n == IF size > hdr.len THEN hdr.len ELSE size
        IN  /\ CanLock
            /\ ext' = HandedSlice(0, n, "PopLefts")
            /\ hdr' = [off |-> hdr.off + n, len |-> hdr.len - n]
            /\ ilast' = MemCall("PopLefts", 0, size)
            /\ UNCHANGED store
            /\ MemFrame

\* PopRights(size): value := a.array[index:]; a.array = a.array[:index]
MemPopRights ==
    \E size \in HandedSizes :
        LET index == IF hdr.len - size < 0 THEN 0 ELSE hdr.len - size
        IN  /\ CanLock
            /\ ext' = HandedSlice(index, hdr.len, "PopRights")
            /\ hdr' = [hdr EXCEPT !.len = index]
            /\ ilast' = MemCall("PopRights", 0, size)
            /\ UNCHANGED store
            /\ MemFrame

\* Remove(index), index inside the array: a.array[1:] for the first element,
\* a.array[:index] for the last, and otherwise
\* append(a.array[:index], a.array[index+1:]...), which moves the elements
\* behind index one cell to the left in place.
MemRemove ==
    \E index \in RemoveIdx :
        /\ CanLock
        /\ index < hdr.len
        /\ IF index = 0
           THEN /\ hdr' = [off |-> hdr.off + 1, len |-> hdr.len - 1]
                /\ ext' = IF ext.held THEN [ext EXCEPT !.moved = TRUE] ELSE ext
                /\ UNCHANGED store
           ELSE IF index = hdr.len - 1
           THEN /\ hdr' = [hdr EXCEPT !.len = index]
                /\ UNCHANGED <<store, ext>>
           ELSE /\ store' = [i \in 1..Len(store) |->
                                IF i > hdr.off + index /\ i < hdr.off + hdr.len
                                THEN store[i + 1] ELSE store[i]]
                /\ hdr' = [hdr EXCEPT !.len = @ - 1]
                /\ UNCHANGED ext
        /\ ilast' = MemCall("Remove", index, Content[index + 1])
        /\ MemFrame

\* NewIntArrayFrom(s, unsafe...); the caller keeps no slice of s.
InitHanded ==
    /\ safe \in BOOLEAN
    /\ mu = "free"
    /\ ia = <<>>
    /\ ilast = NoIntCall
    /\ array = <<>>
    /\ unique = FALSE
    /\ last = NoCall
    /\ NoThreads
    /\ store \in SeqsUpTo(PushVals, MaxMemLen + 1)
    /\ hdr = [off |-> 0, len |-> Len(store)]
    /\ ext = NoExt

NextHanded ==
    \/ MemChunk
    \/ MemPopLefts
    \/ MemPopRights
    \/ MemSet
    \/ MemRemove
    \/ MemPushRight
    \/ ExtWrite

SpecHanded == InitHanded /\ [][NextHanded]_vars

\* ------------------------------------------------------------------------
\* Claim on the slices handed to the caller (SpecHanded)
\* ------------------------------------------------------------------------

\* The calls that hand the caller a sequence of elements of the container.
HandingCalls == {"Chunk", "PopLefts", "PopRights"}

\* C32: in safe mode the sequence Chunk, PopLefts or PopRights handed to the
\* caller holds what the caller last saw in it after every later Set, Remove
\* and PushRight on the container, and a write of the caller to it leaves the
\* container's elements as they were.
C32_HandedSequencesIndependent ==
    (safe /\ ext.held /\ ext.by \in HandingCalls) => CopyIsIndependent

\* ------------------------------------------------------------------------
\* IntArray: Clone and Clear (SpecClone)
\* ------------------------------------------------------------------------

\* rwmutex.New(unsafe...): the mode of the new lock, TRUE for a real lock.
rwmutexNew(unsafe) == ~unsafe

\* Clone() that returns a container on a.array itself.
CloneResultShared ==
    HandedSlice(0, hdr.len, "Clone") @@ [mode |-> rwmutexNew(~safe)]

\* Clone(): array := make([]int, len(a.array)); copy(array, a.array);
\* NewIntArrayFrom(array, !a.mu.IsSafe()). The clone is kept as the slice its
\* array field is, with the mode of its lock.
CloneResult ==
    OwnSlice(MakeCopy(hdr.len, Content, 0), "Clone") @@ [mode |-> rwmutexNew(~safe)]

\* A clone of the container exists.
CloneHeld == ext.held /\ ext.by = "Clone"

\* Clone()
MemClone ==
    /\ CanLock
    /\ ext' = CloneResult
    /\ ilast' = MemCall("Clone", 0, 0)
    /\ UNCHANGED <<store, hdr>>
    /\ MemFrame

\* Clear(): a.array = make([]int, 0) unless the array is empty already.
MemClear ==
    /\ CanLock
    /\ IF hdr.len > 0 THEN Reallocate(<<>>, 0) ELSE UNCHANGED memVars
    /\ ilast' = MemCall("Clear", 0, 0)
    /\ MemFrame

\* Set(index, value) on the clone, index inside its array: a write to an
\* element of the clone's array.
CloneSet == CloneHeld /\ ExtWrite

\* PushRight(value) on the clone, whose array has a backing array of its own.
ClonePushRight ==
    \E value \in PushVals :
        /\ CloneHeld
        /\ ext.len < MaxMemLen
        /\ ext' = [ext EXCEPT !.own = Append(ExtContent, value), !.off = 0,
                              !.len = @ + 1, !.snap = Append(@, value)]
        /\ ilast' = [MemCall("ClonePushRight", 0, value) EXCEPT !.pre = Content]
        /\ UNCHANGED <<store, hdr>>
        /\ MemFrame

NextClone ==
    \/ MemClone
    \/ MemClear
    \/ MemSet
    \/ MemPushRight
    \/ MemPopLeft
    \/ MemRemove
    \/ CloneSet
    \/ ClonePushRight

SpecClone == InitHanded /\ [][NextClone]_vars

\* ------------------------------------------------------------------------
\* Claim on Clone and Clear (SpecClone)
\* ------------------------------------------------------------------------

\* The calls on the original container that write.
OriginalCalls == {"Set", "PushRight", "PopLeft", "Remove", "Clear"}

\* The calls on the clone.
CloneCalls == {"ExtWrite", "ClonePushRight"}

\* The clone has the mode of the original; it holds the original's elements
\* when Clone returns; a call on the original leaves the clone's elements as
\* they were, and a call on the clone leaves the original's.
CloneIsIndependent ==
    CloneHeld =>
        /\ ext.mode = safe
        /\ ilast.op = "Clone" => ExtContent = Content
        /\ ilast.op \in OriginalCalls => ExtContent = ext.snap
        /\ ilast.op \in CloneCalls => Content = ilast.pre

\* C33: Clone() returns a container with the original's elements and lock
\* mode that shares no storage with it, in both modes: no later call on one
\* changes the other. Clear() leaves the container empty and its lock mode
\* as it was.
C33_CloneIndependentClearEmpties ==
    /\ [](CloneIsIndependent /\ (ilast.op = "Clear" => hdr.len = 0))
    /\ [][ilast'.op = "Clear" => safe' = safe]_vars

\* In unsafe mode a Set on the original has left it holding <<2, 2>> while
\* its unsafe clone holds <<1, 1>>.
C33_Witness ==
    /\ ~safe
    /\ CloneHeld
    /\ ~ext.mode
    /\ ilast.op = "Set"
    /\ Content = <<2, 2>>
    /\ ExtContent = <<1, 1>>

\* ------------------------------------------------------------------------
\* SortedStringArray: a clone that receives the Add calls of the original
\* (SpecCloneAdd)
\* ------------------------------------------------------------------------

\* gtype.NewBool(): the value of a new flag.
gtypeNewBool == FALSE

\* Clone(): array := make([]string, len(a.array)); copy(array, a.array);
\* NewSortedStringArrayFrom(array, !a.mu.IsSafe()), which builds a container
\* with a new flag and sorts the copy. The clone is kept with its array, its
\* flag and the mode of its lock.
SortedCloneResult ==
    [held |-> TRUE, by |-> "Clone",
     array |-> SortStrings(MakeCopy(Len(array), array, "")),
     unique |-> gtypeNewBool,
     mode |-> rwmutexNew(~safe)]

\* Clone()
SortedClone ==
    /\ CanLock
    /\ ext' = SortedCloneResult
    /\ last' = Call("Clone")
    /\ UNCHANGED <<safe, mu, array, unique, intVars, concVars, store, hdr>>

\* Add(values...) on the original and then on its clone.
AddToBoth ==
    \E values \in SeqsUpTo(Strs, MaxArgs) :
        /\ ext.held
        /\ Len(array) + Len(values) <= MaxLen
        /\ Len(ext.array) + Len(values) <= MaxLen
        /\ values = <<>> \/ CanLock
        /\ array' = AddAll(array, unique, values)
        /\ ext' = [ext EXCEPT !.array = AddAll(@, ext.unique, values)]
        /\ last' = [Call("Add") EXCEPT !.args = values]
        /\ UNCHANGED <<safe, mu, unique, intVars, concVars, store, hdr>>

\* Calls on a sorted container up to its Clone, and from then on the same Add
\* calls on the container and on the clone.
NextCloneAdd ==
    \/ ~ext.held /\ Add
    \/ ~ext.held /\ SetUnique
    \/ ~ext.held /\ SortedClone
    \/ AddToBoth

SpecCloneAdd == Init /\ [][NextCloneAdd]_vars

\* ------------------------------------------------------------------------
\* Claim on the flag of a clone (SpecCloneAdd)
\* ------------------------------------------------------------------------

\* C34: the clone of a sorted container has the uniqueness flag of the
\* original, and after the same Add calls on both, the original and the clone
\* hold the same elements.
C34_CloneCarriesFlag ==
    ext.held => (ext.unique = unique /\ ext.array = array)

\* ------------------------------------------------------------------------
\* SortedStringArray: Add on any contents the container comes to hold
\* (SpecOrder)
\* ------------------------------------------------------------------------

\* SetArray and SetUnique bring the container to its contents and flag, Add
\* adds one or more values.
NextOrder ==
    \/ Add
    \/ SetArray
    \/ SetUnique

SpecOrder == Init /\ [][NextOrder]_vars

\* ------------------------------------------------------------------------
\* Claim on the order of added values (SpecOrder)
\* ------------------------------------------------------------------------

\* Add(a) and then Add(b) on a container holding s with the flag uniq.
AddThenAdd(s, uniq, a, b) == AddAll(AddAll(s, uniq, <<a>>), uniq, <<b>>)

\* C35: for any contents and either value of the flag, the call Add(a, b)
\* leaves the container as Add(a) followed by Add(b), as Add(b) followed by
\* Add(a), and as Add(b, a) leave it.
C35_AddOrderIrrelevant ==
    (last.op = "Add" /\ Len(last.args) = 2) =>
        LET s == last.pre
            u == last.preUnique
            a == last.args[1]
            b == last.args[2]
        IN  /\ array = AddThenAdd(s, u, a, b)
            /\ array = AddThenAdd(s, u, b, a)
            /\ array = AddAll(s, u, <<b, a>>)

\* With uniqueness on, Add("b", "1") on a container holding <<"a", "a">> has
\* put "1" in front and "b" behind.
C35_Witness ==
    /\ last.op = "Add"
    /\ last.preUnique
    /\ last.pre = <<"a", "a">>
    /\ last.args = <<"b", "1">>
    /\ array = <<"1", "a", "a", "b">>

\* ------------------------------------------------------------------------
\* SortedStringArray: the storage a.array shares with the sequence the
\* caller built it from (SpecSortedAlias)
\* ------------------------------------------------------------------------

\* NewSortedStringArrayFrom(s): a.array = s; sort.Strings(a.array). The
\* caller's s is a slice of the backing array that was sorted; snap keeps s
\* as the caller passed it.
NewFromResult(s) ==
    [store |-> SortStrings(s),
     ext |-> [SharedSlice(0, Len(s), "NewFrom") EXCEPT !.snap = s]]

\* NewSortedStringArrayFromCopy(s) that passes s itself on.
NewFromCopyResultShared(s) ==
    [NewFromResult(s) EXCEPT !.ext.by = "NewFromCopy"]

\* NewSortedStringArrayFromCopy(s): newArray := make([]string, len(s));
\* copy(newArray, s); NewSortedStringArrayFrom(newArray).
NewFromCopyResult(s) ==
    [store |-> NewFromResult(MakeCopy(Len(s), s, "")).store,
     ext |-> OwnSlice(s, "NewFromCopy")]

\* The last call on the container: its name; SetArray adds its argument.
SortedMemCall(name) == [NoCall EXCEPT !.op = name]

SortedMemFrame == UNCHANGED <<safe, mu, array, unique, intVars, concVars>>

\* The caller's slice once a.array has left the backing array old.
Detached(old) ==
    IF ~ext.held THEN ext
    ELSE IF ext.shared
    THEN [ext EXCEPT !.shared = FALSE, !.off = 0, !.moved = TRUE,
                     !.own = SubSeq(old, ext.off + 1, ext.off + ext.len)]
    ELSE [ext EXCEPT !.moved = TRUE]

\* The backing array append allocates for n elements when cap(a.array) is
\* exceeded: twice the capacity, holding elems.
Grown(elems) ==
    [i \in 1..(IF Cap = 0 THEN 1 ELSE 2 * Cap) |->
        IF i <= Len(elems) THEN elems[i] ELSE ""]

\* The sequences callers build the container from and set it to.
SortedMemArrays == SeqsUpTo(AddVals, MaxMemLen)

\* SetArray(s): a.array = s; sort.Strings(a.array). The caller's sequence
\* that is followed from here on is s, unless it is the one passed to
\* NewSortedStringArrayFromCopy, which stays followed.
SortedMemSetArray ==
    \E s \in SortedMemArrays :
        /\ CanLock
        /\ store' = SortStrings(s)
        /\ hdr' = [off |-> 0, len |-> Len(s)]
        /\ ext' = IF ext.by = "NewFromCopy" THEN Detached(store)
                  ELSE [SharedSlice(0, Len(s), "SetArray") EXCEPT !.snap = s]
        /\ last' = [SortedMemCall("SetArray") EXCEPT !.args = s]
        /\ SortedMemFrame

\* Add(value): a skipped value changes nothing;
\* a.array = append(a.array, value) on the empty array, otherwise
\* a.array = append(append(a.array[0:index], value), rear...): the appends
\* write in place while cap(a.array) allows; beyond it the first append still
\* writes value over a.array[index] in the old backing array unless index is
\* the end, and the result is in a new backing array.
SortedMemAdd ==
    \E value \in AddVals :
        LET r    == binSearch(Content, value)
            at   == IF r[1] < 0 THEN 0 ELSE InsertIndex(r[1], r[2])
            rear == GoSlice(Content, at, hdr.len)
            new  == (GoSlice(Content, 0, at) \o <<value>>) \o rear
            old  == IF at < hdr.len
                    THEN [store EXCEPT ![hdr.off + at + 1] = value]
                    ELSE store
        IN  /\ CanLock
            /\ hdr.len <= MaxMemLen
            /\ IF SkipValue(unique, r[2])
               THEN UNCHANGED memVars
               ELSE IF hdr.len < Cap
               THEN /\ store' = [i \in 1..Len(store) |->
                                    IF i > hdr.off /\ i <= hdr.off + hdr.len + 1
                                    THEN new[i - hdr.off] ELSE store[i]]
                    /\ hdr' = [hdr EXCEPT !.len = @ + 1]
                    /\ UNCHANGED ext
               ELSE /\ store' = Grown(new)
                    /\ hdr' = [off |-> 0, len |-> hdr.len + 1]
                    /\ ext' = Detached(old)
            /\ last' = SortedMemCall("Add")
            /\ SortedMemFrame

\* Remove(index), index inside the array: a.array[1:] for the first element,
\* a.array[:index] for the last, and otherwise
\* append(a.array[:index], a.array[index+1:]...) in place.
SortedMemRemove ==
    \E index \in RemoveIdx :
        /\ CanLock
        /\ index < hdr.len
        /\ IF index = 0
           THEN /\ hdr' = [off |-> hdr.off + 1, len |-> hdr.len - 1]
                /\ ext' = IF ext.held THEN [ext EXCEPT !.moved = TRUE] ELSE ext
                /\ UNCHANGED store
           ELSE IF index = hdr.len - 1
           THEN /\ hdr' = [hdr EXCEPT !.len = index]
                /\ UNCHANGED <<store, ext>>
           ELSE /\ store' = [i \in 1..Len(store) |->
                                IF i > hdr.off + index /\ i < hdr.off + hdr.len
                                THEN store[i + 1] ELSE store[i]]
                /\ hdr' = [hdr EXCEPT !.len = @ - 1]
                /\ UNCHANGED ext
        /\ last' = SortedMemCall("Remove")
        /\ SortedMemFrame

\* s := []string{...}; NewSortedStringArrayFrom(s, unsafe...) or
\* NewSortedStringArrayFromCopy(s, unsafe...); the caller keeps s.
InitSortedAlias ==
    /\ safe \in BOOLEAN
    /\ mu = "free"
    /\ array = <<>>
    /\ unique = gtypeNewBool
    /\ NoIntArray
    /\ NoThreads
    /\ \E s \in SortedMemArrays :
          /\ last = [NoCall EXCEPT !.args = s]
          /\ \E r \in {NewFromResult(s), NewFromCopyResult(s)} :
                /\ store = r.store
                /\ ext = r.ext
                /\ hdr = [off |-> 0, len |-> Len(s)]

NextSortedAlias ==
    \/ SortedMemSetArray
    \/ SortedMemAdd
    \/ SortedMemRemove

SpecSortedAlias == InitSortedAlias /\ [][NextSortedAlias]_vars

\* ------------------------------------------------------------------------
\* Claim on the constructors and SetArray (SpecSortedAlias)
\* ------------------------------------------------------------------------

\* t holds the elements of s, each as often, in increasing order.
IsSortingOf(t, s) ==
    /\ IsSorted(t)
    /\ Len(t) = Len(s)
    /\ \A v \in AddVals : Count(t, v) = Count(s, v)

\* The container has just been built from, or set to, the sequence last.args.
JustBuilt == last.op \in {"new", "SetArray"}

\* C36: NewSortedStringArrayFrom(s) and SetArray(s) leave the container
\* holding the elements of s in increasing order, and the caller's s holding
\* them in that order too; NewSortedStringArrayFromCopy(s) leaves the
\* container holding the same and the caller's s as it was, then and after
\* every later SetArray, Add and Remove; a new container has uniqueness off.
C36_ConstructorsSortAndAlias ==
    /\ JustBuilt => IsSortingOf(Content, last.args)
    /\ (JustBuilt /\ ext.by \in {"NewFrom", "SetArray"} /\ ~ext.moved) =>
          (ext.snap = last.args /\ ExtContent = Content)
    /\ ext.by = "NewFromCopy" => ExtContent = ext.snap
    /\ (last.op = "new" /\ ext.by = "NewFromCopy") => ext.snap = last.args
    /\ last.op = "new" => ~unique

\* The container built by NewSortedStringArrayFromCopy(<<"a", "1">>) has
\* since had a value added and one removed, and the caller's sequence is as
\* it was.
C36_Witness ==
    /\ ext.by = "NewFromCopy"
    /\ ext.snap = <<"a", "1">>
    /\ ExtContent = <<"a", "1">>
    /\ last.op = "Remove"
    /\ Content = <<"1", "a">>

====
